---- MODULE Spec2Model ----
(***************************************************************************)
(* A model of the rendering core of crayon: the handle-indexed resource    *)
(* tables of graphics::backend::Device (src/graphics/backend/device.rs),   *)
(* its deferred draw-call queues and flush, and the frame loop of          *)
(* application::Engine (src/application/engine.rs).                        *)
(*                                                                         *)
(* The OpenGL visitor is the environment: every backend call either        *)
(* succeeds or returns a backend error, and a create call returns the id   *)
(* of the new backend object.  Each handler of the Device is one action;   *)
(* it records what the call returned in `last` and the backend calls it    *)
(* issued, in order, in `calls`.                                           *)
(***************************************************************************)
EXTENDS Integers, Sequences, FiniteSets, TLC

VARIABLES
    vertex_buffers,     \* Device.vertex_buffers.buf : Vec<Option<VertexBufferObject>>
    index_buffers,      \* Device.index_buffers.buf
    pipelines,          \* Device.pipelines.buf
    views,              \* Device.views.buf
    textures,           \* Device.textures.buf
    render_buffers,     \* Device.render_buffers.buf
    framebuffers,       \* Device.framebuffers.buf
    active_pipeline,    \* Device.active_pipeline : Cell<Option<PipelineStateHandle>>
    last,               \* the last Device call: its name, handles and result
    calls,              \* the backend calls the last Device call issued, in order
    alive,              \* Engine.alive
    pc,                 \* where the control thread is in Engine::run
    worker,             \* where the closure spawned for this iteration is
    channel,            \* the mpsc channel of this iteration
    application,        \* who holds the write lock of the RwLock<Application>
    frames,             \* the two frames of the graphics system
    front,              \* the frame the application records into; the other is the back
    iteration,          \* the number of iterations of the loop that have started
    writing,            \* the frame a callback is writing a task into, at this instant
    reading,            \* the frame graphics.advance() is dispatching, at this instant
    callbacks,          \* the application callbacks started in this iteration, in order
    clears,             \* per run_one_frame call of this iteration, the draw calls it removed
    accepted,           \* the draw calls the Device accepted in this iteration
    done,               \* what has completed in this iteration
    min_fps,            \* Engine.min_fps
    max_fps,            \* Engine.max_fps
    smoothing_step,     \* Engine.smoothing_step
    previous_timesteps, \* Engine.previous_timesteps, most recent first
    timestep,           \* Engine.timestep
    last_frame_timepoint, \* Engine.last_frame_timepoint
    now,                \* the clock
    apc,                \* where the control thread is in Engine::advance
    raw,                \* the elapsed time the last call of advance sampled, unclamped
    advances            \* the number of calls of advance

tables == << vertex_buffers, index_buffers, pipelines, views, textures,
             render_buffers, framebuffers >>
devVars == << vertex_buffers, index_buffers, pipelines, views, textures,
              render_buffers, framebuffers, active_pipeline, last, calls >>
engVars == << alive, pc, worker, channel, application, frames, front, iteration,
             writing, reading, callbacks, clears, accepted, done >>
timeVars == << min_fps, max_fps, smoothing_step, previous_timesteps, timestep,
              last_frame_timepoint, now, apc, raw, advances >>
vars == << devVars, engVars, timeVars >>

(***************************************************************************)
(* Bounds of the model.                                                    *)
(***************************************************************************)
\* Handles have indices 0..MaxIndex.
MaxIndex == 1
\* Handles have versions 1..MaxVersion.
MaxVersion == 1
\* The backend hands out object ids 1..MaxId.
MaxId == 2
\* Buffers are created with a capacity of 1..MaxCap bytes.
MaxCap == 2
\* Update offsets and data lengths range over 0..MaxData.
MaxData == 2
\* The resource harness has at most MaxKinds of the seven tables in use in one run.
MaxKinds == 1
\* A view's draw-call queue holds at most MaxQueue draw calls.
MaxQueue == 2
\* The iterations of Engine::run the engine runs for.
MaxFrames == 3
\* The flush harness uses the view handles of index 0..MaxView.
MaxView == 2
\* The flush harness lets the backend fail at one of the first MaxFail calls of a flush.
MaxFail == 5
MaxAdvances == 3
MaxDraws == 3
MaxFailDraws == 2
MaxTime == 300

(***************************************************************************)
(* Values.                                                                 *)
(***************************************************************************)
\* Option<T>
None == [some |-> FALSE]
Some(v) == [some |-> TRUE, val |-> v]

\* utils::Handle: an (index, version) pair; the tables read index() only.
Handles == [index : 0..MaxIndex, version : 1..MaxVersion]
NoHandle == [index |-> 0, version |-> 0]

Ids == 1..MaxId
BufferHints == {"Immutable", "Dynamic"}
Caps == 1..MaxCap

\* A backend call: its name, the object id it names (0: none) and one more argument.
Call(name, id, arg) == [call |-> name, id |-> id, arg |-> arg, name |-> ""]
\* A backend call that names a uniform, texture or attribute.
CallN(name, id, arg, nm) == [call |-> name, id |-> id, arg |-> arg, name |-> nm]

\* The messages of the errors flush makes with format!: they carry the name
\* (LocateErrorAnonymous does not).
LocateErrorAnonymous(name) == "failed to locate uniform."
LocateUniformError(name) == "failed to locate uniform " \o name \o "."
LocateTextureError(name) == "failed to locate texture " \o name \o "."
\* {} of an unsigned integer, and {:?} of a TextureHandle.
Digit(d) == << "0", "1", "2", "3", "4", "5", "6", "7", "8", "9" >>[d + 1]
RECURSIVE Decimal(_)
Decimal(n) == IF n < 10 THEN Digit(n) ELSE Decimal(n \div 10) \o Digit(n % 10)
TextureHandleDebug(h) ==
    "TextureHandle(Handle { index: " \o Decimal(h.index)
        \o ", version: " \o Decimal(h.version) \o " })"
InvalidTextureError(texture, name) ==
    "use invalid texture handle " \o TextureHandleDebug(texture) \o " at " \o name

\* What a Device call returned.
Results == {"Ok", "InvalidHandle", "DuplicatedHandle", "OutOfBounds",
            "InvalidUpdateStaticResource", "Backend", "CantAttachNormalTexture",
            "FailedLocateAttribute"}
           \cup {LocateUniformError(n) : n \in {"u", "v"}}
           \cup {LocateTextureError(n) : n \in {"u", "v"}}
           \cup {InvalidTextureError(h, n) : h \in Handles, n \in {"u", "v"}}

(***************************************************************************)
(* DataVec<T>: sparse storage indexed by handle.index().  buf[i + 1] is    *)
(* the slot of index i.                                                    *)
(***************************************************************************)
DvGet(buf, handle) ==
    IF handle.index < Len(buf) THEN buf[handle.index + 1] ELSE None

DvSet(buf, handle, value) ==
    LET grown == buf \o [i \in 1..(handle.index + 1 - Len(buf)) |-> None]
    IN  [grown EXCEPT ![handle.index + 1] = Some(value)]

\* DataVec::remove returns the slot's content ... (DvRemovedNothing: never)
DvRemovedNothing(buf, handle) == None

DvRemoved(buf, handle) ==
    IF Len(buf) <= handle.index THEN None ELSE buf[handle.index + 1]

DvRemoveKeepsSlot(buf, handle) == buf

\* ... and leaves the slot empty (the storage never shrinks).
DvRemove(buf, handle) ==
    IF Len(buf) <= handle.index THEN buf
    ELSE [buf EXCEPT ![handle.index + 1] = None]

(***************************************************************************)
(* The record of a Device call.                                            *)
(***************************************************************************)
Respond(op, h, h2, res, cs) ==
    /\ last' = [op |-> op, h |-> h, h2 |-> h2, res |-> res, offset |-> 0, len |-> 0]
    /\ calls' = cs

\* The record of an update_X(handle, offset, data) call; len is data.len().
RespondUpdate(op, h, offset, len, res, cs) ==
    /\ last' = [op |-> op, h |-> h, h2 |-> NoHandle, res |-> res,
                offset |-> offset, len |-> len]
    /\ calls' = cs

\* The record of a flush: with what it returned, the names the backend located
\* and the step at which the backend failed (0: at none).
RespondFlush(res, cs, located, failAt) ==
    /\ last' = [op |-> "flush", h |-> NoHandle, h2 |-> NoHandle, res |-> res,
                offset |-> 0, len |-> 0, located |-> located, failAt |-> failAt]
    /\ calls' = cs

(***************************************************************************)
(* Vertex and index buffers.  A setup is [hint, len]: the buffer hint and  *)
(* the capacity setup.len() in bytes.  `id` is what the backend's          *)
(* create_buffer returned (0: a backend error) and `chk` whether the       *)
(* trailing check() found no GL error.                                     *)
(***************************************************************************)
BufferSetups == [hint : BufferHints, len : Caps]

CreateVertexBuffer(handle, setup, id, chk) ==
    /\ IF DvGet(vertex_buffers, handle).some
       THEN /\ Respond("create_vertex_buffer", handle, NoHandle, "DuplicatedHandle", << >>)
            /\ UNCHANGED vertex_buffers
       ELSE IF id = 0
       THEN /\ Respond("create_vertex_buffer", handle, NoHandle, "Backend",
                       << Call("create_buffer", 0, setup.len) >>)
            /\ UNCHANGED vertex_buffers
       ELSE /\ vertex_buffers' = DvSet(vertex_buffers, handle, [id |-> id, setup |-> setup])
            /\ Respond("create_vertex_buffer", handle, NoHandle,
                       IF chk THEN "Ok" ELSE "Backend",
                       << Call("create_buffer", id, setup.len) >>)
    /\ UNCHANGED << index_buffers, pipelines, views, textures, render_buffers,
                    framebuffers, active_pipeline >>

\* What update_X returns for a live buffer object, before the backend is called.
\* The code tests the hint, then the bounds (UpdateBufferCheck); the two others
\* are the bounds first and the bounds alone.
UpdateBufferCheckBoundsFirst(obj, offset, len) ==
    IF len + offset > obj.setup.len THEN "OutOfBounds"
    ELSE IF obj.setup.hint = "Immutable" THEN "InvalidUpdateStaticResource"
    ELSE "Ok"

UpdateBufferCheckNoHint(obj, offset, len) ==
    IF len + offset > obj.setup.len THEN "OutOfBounds" ELSE "Ok"

UpdateBufferCheck(obj, offset, len) ==
    IF obj.setup.hint = "Immutable" THEN "InvalidUpdateStaticResource"
    ELSE IF len + offset > obj.setup.len THEN "OutOfBounds"
    ELSE "Ok"

\* `len` is data.len(); `ok` whether the backend's update_buffer succeeded.
UpdateVertexBuffer(handle, offset, len, ok) ==
    /\ LET slot == DvGet(vertex_buffers, handle)
       IN  IF slot.some
           THEN LET c == UpdateBufferCheck(slot.val, offset, len)
                IN  IF c # "Ok"
                    THEN RespondUpdate("update_vertex_buffer", handle, offset, len, c, << >>)
                    ELSE RespondUpdate("update_vertex_buffer", handle, offset, len,
                                 IF ok THEN "Ok" ELSE "Backend",
                                 << Call("update_buffer", slot.val.id, offset) >>)
           ELSE RespondUpdate("update_vertex_buffer", handle, offset, len,
                              "InvalidHandle", << >>)
    /\ UNCHANGED << tables, active_pipeline >>

DeleteVertexBuffer(handle, ok) ==
    /\ LET slot == DvRemoved(vertex_buffers, handle)
       IN  IF slot.some
           THEN Respond("delete_vertex_buffer", handle, NoHandle,
                        IF ok THEN "Ok" ELSE "Backend",
                        << Call("delete_buffer", slot.val.id, 0) >>)
           ELSE Respond("delete_vertex_buffer", handle, NoHandle, "InvalidHandle", << >>)
    /\ vertex_buffers' = DvRemove(vertex_buffers, handle)
    /\ UNCHANGED << index_buffers, pipelines, views, textures, render_buffers,
                    framebuffers, active_pipeline >>

CreateIndexBuffer(handle, setup, id, chk) ==
    /\ IF DvGet(index_buffers, handle).some
       THEN /\ Respond("create_index_buffer", handle, NoHandle, "DuplicatedHandle", << >>)
            /\ UNCHANGED index_buffers
       ELSE IF id = 0
       THEN /\ Respond("create_index_buffer", handle, NoHandle, "Backend",
                       << Call("create_buffer", 0, setup.len) >>)
            /\ UNCHANGED index_buffers
       ELSE /\ index_buffers' = DvSet(index_buffers, handle, [id |-> id, setup |-> setup])
            /\ Respond("create_index_buffer", handle, NoHandle,
                       IF chk THEN "Ok" ELSE "Backend",
                       << Call("create_buffer", id, setup.len) >>)
    /\ UNCHANGED << vertex_buffers, pipelines, views, textures, render_buffers,
                    framebuffers, active_pipeline >>

UpdateIndexBuffer(handle, offset, len, ok) ==
    /\ LET slot == DvGet(index_buffers, handle)
       IN  IF slot.some
           THEN LET c == UpdateBufferCheck(slot.val, offset, len)
                IN  IF c # "Ok"
                    THEN RespondUpdate("update_index_buffer", handle, offset, len, c, << >>)
                    ELSE RespondUpdate("update_index_buffer", handle, offset, len,
                                 IF ok THEN "Ok" ELSE "Backend",
                                 << Call("update_buffer", slot.val.id, offset) >>)
           ELSE RespondUpdate("update_index_buffer", handle, offset, len,
                              "InvalidHandle", << >>)
    /\ UNCHANGED << tables, active_pipeline >>

DeleteIndexBuffer(handle, ok) ==
    /\ LET slot == DvRemoved(index_buffers, handle)
       IN  IF slot.some
           THEN Respond("delete_index_buffer", handle, NoHandle,
                        IF ok THEN "Ok" ELSE "Backend",
                        << Call("delete_buffer", slot.val.id, 0) >>)
           ELSE Respond("delete_index_buffer", handle, NoHandle, "InvalidHandle", << >>)
    /\ index_buffers' = DvRemove(index_buffers, handle)
    /\ UNCHANGED << vertex_buffers, pipelines, views, textures, render_buffers,
                    framebuffers, active_pipeline >>

(***************************************************************************)
(* Render buffers, textures and framebuffers.  A render format is reduced  *)
(* to the attachment class update_framebuffer_with_X matches on.           *)
(***************************************************************************)
RenderFormats == {"Color", "Depth", "DepthStencil"}
\* GenericTextureSetup: Normal(TextureSetup) or Render(RenderTextureSetup)
TextureSetups == {[kind |-> "Normal", format |-> "Color"]}
                    \cup [kind : {"Render"}, format : RenderFormats]
Slots == {0, 1}

\* The attachment point a render format is bound at: COLOR_ATTACHMENT0 + slot,
\* DEPTH_ATTACHMENT or DEPTH_STENCIL_ATTACHMENT (named -1 and -2 here).
Attachment(format, slot) ==
    IF format = "Color" THEN slot ELSE IF format = "Depth" THEN -1 ELSE -2

CreateRenderBuffer(handle, format, id) ==
    /\ IF id = 0
       THEN /\ Respond("create_render_buffer", handle, NoHandle, "Backend",
                       << Call("create_render_buffer", 0, 0) >>)
            /\ UNCHANGED render_buffers
       ELSE /\ render_buffers' = DvSet(render_buffers, handle,
                                       [id |-> id, setup |-> [format |-> format]])
            /\ Respond("create_render_buffer", handle, NoHandle, "Ok",
                       << Call("create_render_buffer", id, 0) >>)
    /\ UNCHANGED << vertex_buffers, index_buffers, pipelines, views, textures,
                    framebuffers, active_pipeline >>

DeleteRenderBuffer(handle, ok) ==
    /\ LET slot == DvRemoved(render_buffers, handle)
       IN  IF slot.some
           THEN Respond("delete_render_buffer", handle, NoHandle,
                        IF ok THEN "Ok" ELSE "Backend",
                        << Call("delete_render_buffer", slot.val.id, 0) >>)
           ELSE Respond("delete_render_buffer", handle, NoHandle, "InvalidHandle", << >>)
    /\ render_buffers' = DvRemove(render_buffers, handle)
    /\ UNCHANGED << vertex_buffers, index_buffers, pipelines, views, textures,
                    framebuffers, active_pipeline >>

CreateFramebuffer(handle, id) ==
    /\ IF DvGet(framebuffers, handle).some
       THEN /\ Respond("create_framebuffer", handle, NoHandle, "DuplicatedHandle", << >>)
            /\ UNCHANGED framebuffers
       ELSE IF id = 0
       THEN /\ Respond("create_framebuffer", handle, NoHandle, "Backend",
                       << Call("create_framebuffer", 0, 0) >>)
            /\ UNCHANGED framebuffers
       ELSE /\ framebuffers' = DvSet(framebuffers, handle, [id |-> id])
            /\ Respond("create_framebuffer", handle, NoHandle, "Ok",
                       << Call("create_framebuffer", id, 0) >>)
    /\ UNCHANGED << vertex_buffers, index_buffers, pipelines, views, textures,
                    render_buffers, active_pipeline >>

\* `fail` is the backend call that returns an error: 0 none, 1 bind_framebuffer,
\* 2 bind_framebuffer_with_texture.
UpdateFramebufferWithTexture(handle, texture, slot, fail) ==
    /\ LET fbo == DvGet(framebuffers, handle)
           tex == DvGet(textures, texture)
       IN  IF ~fbo.some
           THEN Respond("update_framebuffer_with_texture", handle, texture,
                        "InvalidHandle", << >>)
           ELSE IF ~tex.some
           THEN Respond("update_framebuffer_with_texture", handle, texture,
                        "InvalidHandle", << >>)
           ELSE IF tex.val.setup.kind # "Render"
           THEN Respond("update_framebuffer_with_texture", handle, texture,
                        "CantAttachNormalTexture", << >>)
           ELSE IF fail = 1
           THEN Respond("update_framebuffer_with_texture", handle, texture, "Backend",
                        << Call("bind_framebuffer", fbo.val.id, 0) >>)
           ELSE Respond("update_framebuffer_with_texture", handle, texture,
                        IF fail = 2 THEN "Backend" ELSE "Ok",
                        << Call("bind_framebuffer", fbo.val.id, 0),
                           Call("bind_framebuffer_with_texture", tex.val.id,
                                Attachment(tex.val.setup.format, slot)) >>)
    /\ UNCHANGED << tables, active_pipeline >>

UpdateFramebufferWithRenderbuffer(handle, buf, slot, fail) ==
    /\ LET fbo == DvGet(framebuffers, handle)
           rbo == DvGet(render_buffers, buf)
       IN  IF ~fbo.some
           THEN Respond("update_framebuffer_with_renderbuffer", handle, buf,
                        "InvalidHandle", << >>)
           ELSE IF ~rbo.some
           THEN Respond("update_framebuffer_with_renderbuffer", handle, buf,
                        "InvalidHandle", << >>)
           ELSE IF fail = 1
           THEN Respond("update_framebuffer_with_renderbuffer", handle, buf, "Backend",
                        << Call("bind_framebuffer", fbo.val.id, 0) >>)
           ELSE Respond("update_framebuffer_with_renderbuffer", handle, buf,
                        IF fail = 2 THEN "Backend" ELSE "Ok",
                        << Call("bind_framebuffer", fbo.val.id, 0),
                           Call("bind_framebuffer_with_renderbuffer", rbo.val.id,
                                Attachment(rbo.val.setup.format, slot)) >>)
    /\ UNCHANGED << tables, active_pipeline >>

DeleteFramebuffer(handle, ok) ==
    /\ LET slot == DvRemoved(framebuffers, handle)
       IN  IF slot.some
           THEN Respond("delete_framebuffer", handle, NoHandle,
                        IF ok THEN "Ok" ELSE "Backend",
                        << Call("delete_framebuffer", slot.val.id, 0) >>)
           ELSE Respond("delete_framebuffer", handle, NoHandle, "InvalidHandle", << >>)
    /\ framebuffers' = DvRemove(framebuffers, handle)
    /\ UNCHANGED << vertex_buffers, index_buffers, pipelines, views, textures,
                    render_buffers, active_pipeline >>

CreateRenderTexture(handle, format, id) ==
    /\ IF id = 0
       THEN /\ Respond("create_render_texture", handle, NoHandle, "Backend",
                       << Call("create_texture", 0, 0) >>)
            /\ UNCHANGED textures
       ELSE /\ textures' = DvSet(textures, handle,
                    [id |-> id, setup |-> [kind |-> "Render", format |-> format]])
            /\ Respond("create_render_texture", handle, NoHandle, "Ok",
                       << Call("create_texture", id, 0) >>)
    /\ UNCHANGED << vertex_buffers, index_buffers, pipelines, views, render_buffers,
                    framebuffers, active_pipeline >>

CreateTexture(handle, id) ==
    /\ IF id = 0
       THEN /\ Respond("create_texture", handle, NoHandle, "Backend",
                       << Call("create_texture", 0, 0) >>)
            /\ UNCHANGED textures
       ELSE /\ textures' = DvSet(textures, handle,
                    [id |-> id, setup |-> [kind |-> "Normal", format |-> "Color"]])
            /\ Respond("create_texture", handle, NoHandle, "Ok",
                       << Call("create_texture", id, 0) >>)
    /\ UNCHANGED << vertex_buffers, index_buffers, pipelines, views, render_buffers,
                    framebuffers, active_pipeline >>

DeleteTexture(handle, ok) ==
    /\ LET slot == DvRemoved(textures, handle)
       IN  IF slot.some
           THEN Respond("delete_texture", handle, NoHandle,
                        IF ok THEN "Ok" ELSE "Backend",
                        << Call("delete_texture", slot.val.id, 0) >>)
           ELSE Respond("delete_texture", handle, NoHandle, "InvalidHandle", << >>)
    /\ textures' = DvRemove(textures, handle)
    /\ UNCHANGED << vertex_buffers, index_buffers, pipelines, views, render_buffers,
                    framebuffers, active_pipeline >>

(***************************************************************************)
(* Views and pipelines.  A view setup is [order, sequence, framebuffer];   *)
(* a pipeline setup is its attribute layout, a sequence of attribute       *)
(* names.  The clear values, the viewport and the render state are passed  *)
(* to the backend as they are and are not modelled.                        *)
(***************************************************************************)
Orders == {0, 5, 10}
ViewSetups == [order : Orders, sequence : BOOLEAN,
               framebuffer : {None} \cup {Some(h) : h \in Handles}]
Layouts == {<< "Position" >>, << "Position", "Texcoord0" >>}
UniformNames == {"u", "v"}
UniformValues == {1, 2}

CreateView(handle, setup) ==
    /\ views' = DvSet(views, handle, [drawcalls |-> << >>, setup |-> setup])
    /\ Respond("create_view", handle, NoHandle, "Ok", << >>)
    /\ UNCHANGED << vertex_buffers, index_buffers, pipelines, textures, render_buffers,
                    framebuffers, active_pipeline >>

DeleteViewSilent(handle) ==
    /\ Respond("delete_view", handle, NoHandle, "Ok", << >>)
    /\ views' = DvRemove(views, handle)
    /\ UNCHANGED << vertex_buffers, index_buffers, pipelines, textures, render_buffers,
                    framebuffers, active_pipeline >>

DeleteView(handle) ==
    /\ Respond("delete_view", handle, NoHandle,
               IF DvRemoved(views, handle).some THEN "Ok" ELSE "InvalidHandle", << >>)
    /\ views' = DvRemove(views, handle)
    /\ UNCHANGED << vertex_buffers, index_buffers, pipelines, textures, render_buffers,
                    framebuffers, active_pipeline >>

\* The get_attribute_location calls of create_pipeline for the first n names.
AttributeCalls(pid, layout, n) ==
    [i \in 1..n |-> CallN("get_attribute_location", pid, 0, layout[i])]

\* create_pipeline storing the object before it looks the attributes up.
CreatePipelineStoresFirst(handle, layout, pid, bad, kind, chk) ==
    /\ IF pid = 0
       THEN /\ Respond("create_pipeline", handle, NoHandle, "Backend",
                       << Call("create_program", 0, 0) >>)
            /\ UNCHANGED pipelines
       ELSE /\ pipelines' = DvSet(pipelines, handle,
                    [id |-> pid, setup |-> [layout |-> layout], uniforms |-> << >>])
            /\ Respond("create_pipeline", handle, NoHandle,
                       IF bad # 0
                       THEN IF kind = "err" THEN "Backend" ELSE "FailedLocateAttribute"
                       ELSE IF chk THEN "Ok" ELSE "Backend",
                       << Call("create_program", pid, 0) >>
                           \o AttributeCalls(pid, layout,
                                             IF bad # 0 THEN bad ELSE Len(layout)))
    /\ UNCHANGED << vertex_buffers, index_buffers, views, textures, render_buffers,
                    framebuffers, active_pipeline >>

\* `pid` is what create_program returned (0: a backend error); `bad` is the
\* attribute of the layout whose lookup fails (0: none), by returning -1
\* (`kind` "missing") or by a backend error ("err"); `chk` is the trailing check().
CreatePipeline(handle, layout, pid, bad, kind, chk) ==
    /\ IF pid = 0
       THEN /\ Respond("create_pipeline", handle, NoHandle, "Backend",
                       << Call("create_program", 0, 0) >>)
            /\ UNCHANGED pipelines
       ELSE IF bad # 0
       THEN /\ Respond("create_pipeline", handle, NoHandle,
                       IF kind = "err" THEN "Backend" ELSE "FailedLocateAttribute",
                       << Call("create_program", pid, 0) >>
                           \o AttributeCalls(pid, layout, bad))
            /\ UNCHANGED pipelines
       ELSE /\ pipelines' = DvSet(pipelines, handle,
                    [id |-> pid, setup |-> [layout |-> layout], uniforms |-> << >>])
            /\ Respond("create_pipeline", handle, NoHandle,
                       IF chk THEN "Ok" ELSE "Backend",
                       << Call("create_program", pid, 0) >>
                           \o AttributeCalls(pid, layout, Len(layout)))
    /\ UNCHANGED << vertex_buffers, index_buffers, views, textures, render_buffers,
                    framebuffers, active_pipeline >>

\* HashMap::insert on the pipeline's persisted uniforms; in UniformInsertFirstWins
\* a name already present keeps its value.
UniformInsertFirstWins(uniforms, name, variable) ==
    [n \in (DOMAIN uniforms) \cup {name} |->
        IF n \in DOMAIN uniforms THEN uniforms[n] ELSE variable]

UniformInsert(uniforms, name, variable) ==
    [n \in (DOMAIN uniforms) \cup {name} |-> IF n = name THEN variable ELSE uniforms[n]]

UpdatePipelineUniform(handle, name, variable) ==
    /\ LET slot == DvGet(pipelines, handle)
       IN  IF slot.some
           THEN /\ pipelines' = [pipelines EXCEPT ![handle.index + 1] =
                        Some([slot.val EXCEPT
                                 !.uniforms = UniformInsert(@, name, variable)])]
                /\ Respond("update_pipeline_uniform", handle, NoHandle, "Ok", << >>)
           ELSE /\ Respond("update_pipeline_uniform", handle, NoHandle,
                           "InvalidHandle", << >>)
                /\ UNCHANGED pipelines
    /\ UNCHANGED << vertex_buffers, index_buffers, views, textures, render_buffers,
                    framebuffers, active_pipeline >>

DeletePipeline(handle, ok) ==
    /\ LET slot == DvRemoved(pipelines, handle)
       IN  IF slot.some
           THEN Respond("delete_pipeline", handle, NoHandle,
                        IF ok THEN "Ok" ELSE "Backend",
                        << Call("delete_program", slot.val.id, 0) >>)
           ELSE Respond("delete_pipeline", handle, NoHandle, "InvalidHandle", << >>)
    /\ pipelines' = DvRemove(pipelines, handle)
    /\ UNCHANGED << vertex_buffers, index_buffers, views, textures, render_buffers,
                    framebuffers, active_pipeline >>

(***************************************************************************)
(* Draw calls.  The uniform and texture pointers of a DrawCall are         *)
(* modelled by the slices flush resolves them to: sequences of             *)
(* <<name, value>> and <<name, texture handle>>.                           *)
(***************************************************************************)
Priorities == {1, 2, 3}

SubmitPrepend(priority, view, pipeline, texs, unis, vb, ib, from) ==
    /\ LET slot == DvGet(views, view)
           dc == [priority |-> priority, view |-> view, pipeline |-> pipeline,
                  textures |-> texs, uniforms |-> unis, vb |-> vb, ib |-> ib,
                  from |-> from]
       IN  IF slot.some
           THEN /\ views' = [views EXCEPT ![view.index + 1] =
                        Some([slot.val EXCEPT !.drawcalls = << dc >> \o @])]
                /\ Respond("submit", view, NoHandle, "Ok", << >>)
           ELSE /\ Respond("submit", view, NoHandle, "InvalidHandle", << >>)
                /\ UNCHANGED views
    /\ UNCHANGED << vertex_buffers, index_buffers, pipelines, textures, render_buffers,
                    framebuffers, active_pipeline >>

Submit(priority, view, pipeline, texs, unis, vb, ib, from) ==
    /\ LET slot == DvGet(views, view)
           dc == [priority |-> priority, view |-> view, pipeline |-> pipeline,
                  textures |-> texs, uniforms |-> unis, vb |-> vb, ib |-> ib,
                  from |-> from]
       IN  IF slot.some
           THEN /\ views' = [views EXCEPT ![view.index + 1] =
                        Some([slot.val EXCEPT !.drawcalls = Append(@, dc)])]
                /\ Respond("submit", view, NoHandle, "Ok", << >>)
           ELSE /\ Respond("submit", view, NoHandle, "InvalidHandle", << >>)
                /\ UNCHANGED views
    /\ UNCHANGED << vertex_buffers, index_buffers, pipelines, textures, render_buffers,
                    framebuffers, active_pipeline >>

\* The number of draw calls queued in the views of buf[k..].
RECURSIVE Queued(_, _)
Queued(buf, k) ==
    IF k > Len(buf) THEN 0
    ELSE (IF buf[k].some THEN Len(buf[k].val.drawcalls) ELSE 0) + Queued(buf, k + 1)

\* The views table with every live view's draw-call queue emptied.
ClearedKeepsQueues(buf) == buf

Cleared(buf) ==
    [i \in 1..Len(buf) |->
        IF buf[i].some THEN Some([buf[i].val EXCEPT !.drawcalls = << >>]) ELSE buf[i]]

\* `ok`: whether the backend's bind_framebuffer(0, false) succeeded.
RunOneFrame(ok) ==
    /\ views' = Cleared(views)
    /\ active_pipeline' = None
    /\ Respond("run_one_frame", NoHandle, NoHandle, IF ok THEN "Ok" ELSE "Backend",
               << Call("bind_framebuffer", 0, 0) >>)
    /\ UNCHANGED << vertex_buffers, index_buffers, pipelines, textures, render_buffers,
                    framebuffers >>

(***************************************************************************)
(* flush.  The handler is laid out as the sequence of steps it takes when  *)
(* no backend call fails (FlushScript); Exec then runs the steps up to the *)
(* first failing call or bail!.  A step is a fallible backend call, a raw  *)
(* draw, the trailing check(), a bail!, the in-place sort of a view's      *)
(* queue, or the store to active_pipeline.                                 *)
(***************************************************************************)
Step(t, c, res, v, p) == [t |-> t, c |-> c, res |-> res, v |-> v, p |-> p]
ICall(c) == Step("call", c, "", 0, NoHandle)
IDraw(c) == Step("draw", c, "", 0, NoHandle)
ICheck == Step("check", Call("check", 0, 0), "", 0, NoHandle)
IBail(res) == Step("bail", Call("", 0, 0), res, 0, NoHandle)
ISort(i) == Step("sort", Call("", 0, 0), "", i, NoHandle)
IActive(p) == Step("active", Call("", 0, 0), "", 0, p)

RECURSIVE Flat(_)
Flat(ss) == IF Len(ss) = 0 THEN << >> ELSE Head(ss) \o Flat(Tail(ss))

\* Vec::sort_by with the comparator rhs.key.cmp(&lhs.key): a stable sort by
\* descending key.  The elements are <<key, value>> pairs.
InsertAscending(sorted, x) ==
    LET n == Cardinality({i \in 1..Len(sorted) : sorted[i][1] <= x[1]})
    IN  SubSeq(sorted, 1, n) \o << x >> \o SubSeq(sorted, n + 1, Len(sorted))

\* An insertion that puts x before the elements of its own key.
InsertDescendingTiesFirst(sorted, x) ==
    LET n == Cardinality({i \in 1..Len(sorted) : sorted[i][1] > x[1]})
    IN  SubSeq(sorted, 1, n) \o << x >> \o SubSeq(sorted, n + 1, Len(sorted))

InsertDescending(sorted, x) ==
    LET n == Cardinality({i \in 1..Len(sorted) : sorted[i][1] >= x[1]})
    IN  SubSeq(sorted, 1, n) \o << x >> \o SubSeq(sorted, n + 1, Len(sorted))

RECURSIVE SortDescending(_)
SortDescending(s) ==
    IF Len(s) = 0 THEN << >>
    ELSE InsertDescending(SortDescending(SubSeq(s, 1, Len(s) - 1)), s[Len(s)])

\* The indices of the views flush visits, in order: the views with a non-zero
\* order by descending order, then the views with order 0 as the table holds them.
FlushOrderTableOrder(buf) ==
    LET idx == [i \in 1..Len(buf) |-> i - 1]
        IsLive(i) == buf[i + 1].some
    IN  SelectSeq(idx, IsLive)

FlushOrder(buf) ==
    LET idx == [i \in 1..Len(buf) |-> i - 1]
        IsDefault(i) == buf[i + 1].some /\ buf[i + 1].val.setup.order = 0
        IsOrdered(i) == buf[i + 1].some /\ buf[i + 1].val.setup.order # 0
        ordered_views == SelectSeq(idx, IsOrdered)
        keyed == [k \in 1..Len(ordered_views) |->
                    << buf[ordered_views[k] + 1].val.setup.order, ordered_views[k] >>]
        sorted == SortDescending(keyed)
    IN  [k \in 1..Len(sorted) |-> sorted[k][2]] \o SelectSeq(idx, IsDefault)

\* A view's queue as flush leaves it: sorted by descending priority unless the
\* view is sequence-flagged.
SortedDrawcalls(vo) ==
    IF vo.setup.sequence THEN vo.drawcalls
    ELSE LET keyed == [k \in 1..Len(vo.drawcalls) |->
                          << vo.drawcalls[k].priority, vo.drawcalls[k] >>]
             sorted == SortDescending(keyed)
         IN  [k \in 1..Len(sorted) |-> sorted[k][2]]

\* The order in which the HashMap of persisted uniforms is iterated: unspecified,
\* so either direction of a fixed enumeration of the names.  Every pipeline has
\* a map of its own: a flush takes in `rev` the set of the indices of the
\* pipelines whose map is iterated in the reverse direction.
UniformNameSeq == << "u", "v" >>
IterationOrder(uniforms, rev) ==
    LET In(n) == n \in DOMAIN uniforms
        fwd == SelectSeq(UniformNameSeq, In)
    IN  IF rev THEN [k \in 1..Len(fwd) |-> fwd[Len(fwd) + 1 - k]] ELSE fwd

\* bind_pipeline for a live pipeline object: nothing when the handle is the
\* active one, else the program, the render state, the persisted uniforms the
\* program locates, and the store to active_pipeline.
BindPipelineAlways(pipeline, pso, active, located, rev) ==
    LET names == IterationOrder(pso.uniforms, pipeline.index \in rev)
    IN  << ICall(Call("bind_program", pso.id, 0)),
           ICall(Call("set_cull_face", 0, 0)),
           ICall(Call("set_front_face_order", 0, 0)),
           ICall(Call("set_depth_test", 0, 0)),
           ICall(Call("set_depth_write", 0, 0)),
           ICall(Call("set_color_blend", 0, 0)),
           ICall(Call("set_color_write", 0, 0)) >>
        \o Flat([k \in 1..Len(names) |->
                   << ICall(CallN("get_uniform_location", pso.id, 0, names[k])) >>
                   \o IF names[k] \in located
                      THEN << ICall(CallN("bind_uniform", pso.id,
                                          pso.uniforms[names[k]], names[k])) >>
                      ELSE << >>])
        \o << IActive(pipeline) >>

BindPipeline(pipeline, pso, active, located, rev) ==
    IF active.some /\ active.val = pipeline THEN << >>
    ELSE BindPipelineAlways(pipeline, pso, active, located, rev)

\* The steps of one draw call (device.rs, the body of the loop over drawcalls).
\* `located` are the names get_uniform_location finds in the bound program.
DrawCallSteps(dc, active, located, rev) ==
    LET pso == DvGet(pipelines, dc.pipeline)
        vbo == DvGet(vertex_buffers, dc.vb)
    IN  IF ~pso.some THEN << IBail("InvalidHandle") >>
        ELSE
          BindPipeline(dc.pipeline, pso.val, active, located, rev)
          \o Flat([k \in 1..Len(dc.uniforms) |->
                << ICall(CallN("get_uniform_location", pso.val.id, 0,
                               dc.uniforms[k][1])) >>
                \o IF dc.uniforms[k][1] \in located
                   THEN << ICall(CallN("bind_uniform", pso.val.id,
                                       dc.uniforms[k][2], dc.uniforms[k][1])) >>
                   ELSE << IBail(LocateUniformError(dc.uniforms[k][1])) >>])
          \o Flat([k \in 1..Len(dc.textures) |->
                LET to == DvGet(textures, dc.textures[k][2])
                IN  IF ~to.some THEN << IBail(InvalidTextureError(dc.textures[k][2],
                                                               dc.textures[k][1])) >>
                    ELSE << ICall(CallN("get_uniform_location", pso.val.id, 0,
                                        dc.textures[k][1])) >>
                         \o IF dc.textures[k][1] \in located
                            THEN << ICall(CallN("bind_uniform", pso.val.id, k - 1,
                                                dc.textures[k][1])),
                                    ICall(Call("bind_texture", to.val.id, k - 1)) >>
                            ELSE << IBail(LocateTextureError(dc.textures[k][1])) >>])
          \o IF ~vbo.some THEN << IBail("InvalidHandle") >>
             ELSE << ICall(Call("bind_buffer", vbo.val.id, 0)),
                     ICall(Call("bind_attribute_layout", vbo.val.id, 0)) >>
                  \o (IF dc.ib.some
                      THEN IF DvGet(index_buffers, dc.ib.val).some
                           THEN << IDraw(Call("draw_elements", pso.val.id, dc.from)) >>
                           ELSE << IBail("InvalidHandle") >>
                      ELSE << IDraw(Call("draw_arrays", pso.val.id, dc.from)) >>)
                  \o << ICheck >>

\* The steps of the draw calls dcs[k..], and the active pipeline after them.
RECURSIVE DrawCallsSteps(_, _, _, _, _)
DrawCallsSteps(dcs, k, active, located, rev) ==
    IF k > Len(dcs) THEN [steps |-> << >>, active |-> active]
    ELSE LET pso == DvGet(pipelines, dcs[k].pipeline)
             next == IF pso.some THEN Some(dcs[k].pipeline) ELSE active
             rest == DrawCallsSteps(dcs, k + 1, next, located, rev)
         IN  [steps |-> DrawCallSteps(dcs[k], active, located, rev) \o rest.steps,
              active |-> rest.active]

\* The steps of the view of index i: framebuffer, clear, viewport, the sort of
\* its queue and its draw calls in the sorted order.
ViewSteps(i, active, located, rev) ==
    LET vo == views[i + 1].val
        fb == vo.setup.framebuffer
        fbo == IF fb.some THEN DvGet(framebuffers, fb.val) ELSE None
        dcs == DrawCallsSteps(SortedDrawcalls(vo), 1, active, located, rev)
    IN  [steps |->
            (IF fb.some
             THEN IF fbo.some THEN << ICall(Call("bind_framebuffer", fbo.val.id, 1)) >>
                  ELSE << IBail("InvalidHandle") >>
             ELSE << ICall(Call("bind_framebuffer", 0, 0)) >>)
            \o << ICall(Call("clear", 0, i)), ICall(Call("set_viewport", 0, i)) >>
            \o (IF vo.setup.sequence THEN << >> ELSE << ISort(i) >>)
            \o dcs.steps,
         active |-> dcs.active]

RECURSIVE ViewsSteps(_, _, _, _, _)
ViewsSteps(order, k, active, located, rev) ==
    IF k > Len(order) THEN << >>
    ELSE LET v == ViewSteps(order[k], active, located, rev)
         IN  v.steps \o ViewsSteps(order, k + 1, v.active, located, rev)

FlushScript(located, rev) ==
    ViewsSteps(FlushOrder(views), 1, active_pipeline, located, rev)

\* The number of steps of a script that can return a backend error.
Fallible(script) ==
    Cardinality({k \in 1..Len(script) : script[k].t \in {"call", "check"}})

\* Exec that goes on after a failing backend call and returns its error at the end.
RECURSIVE ExecKeepsGoing(_, _, _, _, _)
ExecKeepsGoing(script, k, n, failAt, acc) ==
    IF k > Len(script)
    THEN [res |-> IF failAt \in 1..n THEN "Backend" ELSE "Ok", acc |-> acc]
    ELSE LET it == script[k]
         IN  CASE it.t = "call" ->
                    ExecKeepsGoing(script, k + 1, n + 1, failAt,
                                   [acc EXCEPT !.calls = Append(@, it.c)])
               [] it.t = "check" -> ExecKeepsGoing(script, k + 1, n + 1, failAt, acc)
               [] it.t = "draw" ->
                    ExecKeepsGoing(script, k + 1, n, failAt,
                                   [acc EXCEPT !.calls = Append(@, it.c)])
               [] it.t = "bail" -> [res |-> it.res, acc |-> acc]
               [] it.t = "sort" ->
                    ExecKeepsGoing(script, k + 1, n, failAt,
                                   [acc EXCEPT !.sorted = @ \cup {it.v}])
               [] OTHER ->
                    ExecKeepsGoing(script, k + 1, n, failAt,
                                   [acc EXCEPT !.active = Some(it.p)])

\* Runs script[k..]; n fallible steps were taken so far and the failAt-th one
\* returns a backend error (0: none does).  acc is [calls, sorted, active].
RECURSIVE Exec(_, _, _, _, _)
Exec(script, k, n, failAt, acc) ==
    IF k > Len(script) THEN [res |-> "Ok", acc |-> acc]
    ELSE LET it == script[k]
         IN  CASE it.t = "call" ->
                    LET a == [acc EXCEPT !.calls = Append(@, it.c)]
                    IN  IF n + 1 = failAt THEN [res |-> "Backend", acc |-> a]
                        ELSE Exec(script, k + 1, n + 1, failAt, a)
               [] it.t = "check" ->
                    IF n + 1 = failAt THEN [res |-> "Backend", acc |-> acc]
                    ELSE Exec(script, k + 1, n + 1, failAt, acc)
               [] it.t = "draw" ->
                    Exec(script, k + 1, n, failAt,
                         [acc EXCEPT !.calls = Append(@, it.c)])
               [] it.t = "bail" -> [res |-> it.res, acc |-> acc]
               [] it.t = "sort" ->
                    Exec(script, k + 1, n, failAt,
                         [acc EXCEPT !.sorted = @ \cup {it.v}])
               [] OTHER ->
                    Exec(script, k + 1, n, failAt,
                         [acc EXCEPT !.active = Some(it.p)])

Flush(located, rev, failAt) ==
    /\ LET r == Exec(FlushScript(located, rev), 1, 0, failAt,
                     [calls |-> << >>, sorted |-> {}, active |-> active_pipeline])
       IN  /\ views' = [i \in 1..Len(views) |->
                          IF (i - 1) \in r.acc.sorted
                          THEN Some([views[i].val EXCEPT
                                        !.drawcalls = SortedDrawcalls(views[i].val)])
                          ELSE views[i]]
           /\ active_pipeline' = r.acc.active
           /\ RespondFlush(r.res, r.acc.calls, located, failAt)
    /\ UNCHANGED << vertex_buffers, index_buffers, pipelines, textures, render_buffers,
                    framebuffers >>

(***************************************************************************)
(* Device::new: every table is empty and no pipeline is active.            *)
(***************************************************************************)
DeviceNew ==
    /\ vertex_buffers = << >>
    /\ index_buffers = << >>
    /\ pipelines = << >>
    /\ views = << >>
    /\ textures = << >>
    /\ render_buffers = << >>
    /\ framebuffers = << >>
    /\ active_pipeline = None
    /\ last = [op |-> "new", h |-> NoHandle, h2 |-> NoHandle, res |-> "Ok",
               offset |-> 0, len |-> 0]
    /\ calls = << >>


(***************************************************************************)
(* Engine::run.  The control thread runs the loop; each iteration spawns   *)
(* one closure on the thread pool (the worker) that runs execute_frame and *)
(* sends its result over an mpsc channel.  The application sits behind an  *)
(* RwLock; execute_frame and the on_post_update closure take its write     *)
(* lock.  Every iteration calls Engine::advance, whose steps are those of  *)
(* the timestep section below, before it swaps the frames.                 *)
(*                                                                         *)
(* The graphics system is not part of the sources at hand and is modelled  *)
(* from the design: two frames, of which the application records into the  *)
(* front one while GraphicsSystem::advance dispatches the back one to the  *)
(* Device: run_one_frame, the creations, the submits, flush, the deletions,*)
(* and the reset of the frame.  swap_frames exchanges the two.             *)
(***************************************************************************)
EmptyFrame == [pre |-> << >>, drawcalls |-> << >>, post |-> << >>]
\* The back frame, given the front one; BackIsFront is a single shared frame.
BackIsFront(f) == f
Back(f) == 1 - f

\* The Engine as new_with leaves it: run has not been called.
EngineIdle ==
    /\ alive = TRUE
    /\ pc = "start"
    /\ worker = "idle"
    /\ channel = << >>
    /\ application = "free"
    /\ frames = << EmptyFrame, EmptyFrame >>
    /\ front = 0
    /\ iteration = 0
    /\ writing = None
    /\ reading = None
    /\ callbacks = << >>
    /\ clears = << >>
    /\ accepted = << >>
    /\ done = {}

(***************************************************************************)
(* Engine::advance: the timestep.  Times are in milliseconds; `now` is the *)
(* monotonic clock Instant::now() reads.  The wait loop of a configured    *)
(* max_fps is a position of its own (apc = "wait"), in which the clock     *)
(* advances while the thread sleeps or yields; the rest of the function is *)
(* one step.  The harness feeds samples that are multiples of 10 ms and    *)
(* smooths over windows of 2, so that every mean is a whole number of ms.  *)
(***************************************************************************)
Settings == [min_fps : {0, 10}, max_fps : {0, 50}, time_smooth_step : {0, 2}]
Unconfigured == [min_fps |-> 0, max_fps |-> 0, time_smooth_step |-> 0]
TickSet == {10, 20, 250}

\* Engine::new_with(settings), the part of the timestep.
TimingNew(settings) ==
    /\ min_fps = settings.min_fps
    /\ max_fps = settings.max_fps
    /\ smoothing_step = settings.time_smooth_step
    /\ previous_timesteps = << >>
    /\ timestep = 0
    /\ last_frame_timepoint = 0
    /\ now = 0
    /\ apc = "idle"
    /\ raw = 0
    /\ advances = 0

\* Duration::from_millis((1000 / fps) as u64)
Interval(fps) == 1000 \div fps
\* self.last_frame_timepoint.elapsed()
Elapsed == now - last_frame_timepoint
Min(a, b) == IF a <= b THEN a ELSE b

RECURSIVE Sum(_)
Sum(s) == IF Len(s) = 0 THEN 0 ELSE Head(s) + Sum(Tail(s))

\* The smoothing of Engine::advance: the history after the push and the drain,
\* and the timestep.
Smoothed(history, sample, w) ==
    LET pushed == << sample >> \o history
    IN  IF Len(pushed) > w
        THEN [history |-> SubSeq(pushed, 1, w),
              timestep |-> Sum(SubSeq(pushed, 1, w)) \div w]
        ELSE [history |-> pushed, timestep |-> Head(pushed)]

\* The clamp of the elapsed sample; ClampOff leaves the sample as it is.
ClampOff(elapsed, fps) == elapsed
Clamp(elapsed, fps) == IF fps > 0 THEN Min(elapsed, Interval(fps)) ELSE elapsed

\* The clock advances: between two calls of advance by one frame time, and
\* in the wait loop for as long as the loop runs.
Tick(d) ==
    /\ now + d <= MaxTime
    /\ \/ apc = "idle" /\ now = last_frame_timepoint
       \/ apc = "wait"
    /\ now' = now + d
    /\ UNCHANGED << devVars, engVars, min_fps, max_fps, smoothing_step,
                    previous_timesteps, timestep, last_frame_timepoint, apc, raw,
                    advances >>

\* set_min_fps, between two frames.
SetMinFps(fps) ==
    /\ apc = "idle"
    /\ min_fps' = fps
    /\ UNCHANGED << devVars, engVars, max_fps, smoothing_step, previous_timesteps,
                    timestep, last_frame_timepoint, now, apc, raw, advances >>

\* set_max_fps and set_time_smoothing_step, between two frames.
SetMaxFps(fps) ==
    /\ apc = "idle"
    /\ max_fps' = fps
    /\ UNCHANGED << devVars, engVars, min_fps, smoothing_step, previous_timesteps,
                    timestep, last_frame_timepoint, now, apc, raw, advances >>

SetTimeSmoothingStep(step) ==
    /\ apc = "idle"
    /\ smoothing_step' = step
    /\ UNCHANGED << devVars, engVars, min_fps, max_fps, previous_timesteps,
                    timestep, last_frame_timepoint, now, apc, raw, advances >>

\* advance is called: with a max_fps it enters the wait loop.
AdvanceBegin ==
    /\ apc = "idle"
    /\ advances < MaxAdvances
    /\ apc' = IF max_fps > 0 THEN "wait" ELSE "sample"
    /\ advances' = advances + 1
    /\ UNCHANGED << devVars, engVars, min_fps, max_fps, smoothing_step,
                    previous_timesteps, timestep, last_frame_timepoint, now, raw >>

\* The loop `while elapsed() <= td` ends; WaitEndAtOnce does not wait at all.
WaitEndAtOnce ==
    /\ apc = "wait"
    /\ apc' = "sample"
    /\ UNCHANGED << devVars, engVars, min_fps, max_fps, smoothing_step,
                    previous_timesteps, timestep, last_frame_timepoint, now, raw,
                    advances >>

WaitEnd ==
    /\ apc = "wait"
    /\ ~(Elapsed <= Interval(max_fps))
    /\ apc' = "sample"
    /\ UNCHANGED << devVars, engVars, min_fps, max_fps, smoothing_step,
                    previous_timesteps, timestep, last_frame_timepoint, now, raw,
                    advances >>

\* The sample, the clamp and the smoothing (engine.rs, from `let mut elapsed`).
\* The sample is last_frame_timepoint.elapsed(); the new timepoint is a second
\* read of the clock, Instant::now(), `gap` ms after the first.
AdvanceSample(gap) ==
    /\ apc = "sample"
    /\ now + gap <= MaxTime
    /\ LET elapsed == Clamp(Elapsed, min_fps)
           s == Smoothed(previous_timesteps, elapsed, smoothing_step)
       IN  IF smoothing_step > 0
           THEN /\ previous_timesteps' = s.history
                /\ timestep' = s.timestep
           ELSE /\ timestep' = elapsed
                /\ UNCHANGED previous_timesteps
    /\ raw' = Elapsed
    /\ now' = now + gap
    /\ last_frame_timepoint' = now + gap
    /\ apc' = "idle"
    /\ UNCHANGED << devVars, engVars, min_fps, max_fps, smoothing_step, advances >>

\* Engine::new_with(settings) with the default settings of the harness.
EngineNew == EngineIdle /\ TimingNew(Unconfigured)

Init == DeviceNew /\ EngineNew

H0 == [index |-> 0, version |-> 1]

\* The tasks the application of the harness records: in its first on_update
\* a view, a pipeline and a vertex buffer, in this order; in on_render draw
\* calls on that view; in on_post_update the deletion of the view.
SetupTasks == << [t |-> "create_view"], [t |-> "create_pipeline"],
                 [t |-> "create_vertex_buffer"] >>

\* The close event seen while the frame is still in flight.
PollEventsInFlight(closed) ==
    /\ pc \in {"poll", "recv"} /\ alive
    /\ IF pc = "poll"
       THEN closed \/ (iteration < MaxFrames /\ advances < MaxAdvances)
       ELSE closed
    /\ alive' = ~closed
    /\ pc' = IF closed THEN "exit_ok" ELSE "swap"
    /\ UNCHANGED << timeVars, devVars, worker, channel, application, frames, front, iteration,
                    writing, reading, callbacks, clears, accepted, done >>

\* The start of Engine::run: `let dir = ::std::env::current_dir()?;`.  The
\* working directory of the process is there (ok) and the loop is entered,
\* or it is not (removed, not readable) and run returns the io error before
\* anything is polled.
CurrentDir(ok) ==
    /\ pc = "start"
    /\ pc' = IF ok THEN "poll" ELSE "exit_err"
    /\ UNCHANGED << timeVars, devVars, alive, worker, channel, application, frames, front,
                    iteration, writing, reading, callbacks, clears, accepted, done >>

\* The input queue holds no close event, or holds one (engine.rs, the poll).
PollEvents(closed) ==
    /\ pc = "poll" /\ alive
    /\ closed \/ (iteration < MaxFrames /\ advances < MaxAdvances)
    /\ alive' = ~closed
    /\ pc' = IF closed THEN "exit_ok" ELSE "swap"
    /\ UNCHANGED << timeVars, devVars, worker, channel, application, frames, front, iteration,
                    writing, reading, callbacks, clears, accepted, done >>

\* self.advance(), called once in every iteration: the steps of advance with
\* the control thread at this line.  The clock of the frame loop moves by
\* FrameTick ms before every read: once before the call, in the wait loop
\* while the loop runs, and between the two reads of the sample.
FrameTick == 10

FrameClock ==
    /\ pc = "swap"
    /\ apc = "idle" => advances = iteration
    /\ apc = "wait" => Elapsed <= Interval(max_fps)
    /\ Tick(FrameTick)

FrameAdvance ==
    /\ pc = "swap"
    /\ advances = iteration
    /\ now > last_frame_timepoint
    /\ AdvanceBegin

\* self.graphics.swap_frames(), when self.advance() has returned.
SwapFrames ==
    /\ pc = "swap"
    /\ apc = "idle" /\ advances = iteration + 1
    /\ front' = 1 - front
    /\ iteration' = iteration + 1
    /\ callbacks' = << >>
    /\ clears' = << >>
    /\ accepted' = << >>
    /\ done' = {}
    /\ pc' = "spawn"
    /\ UNCHANGED << timeVars, devVars, alive, worker, channel, application, frames, writing,
                    reading >>

\* mpsc::channel(); self.scheduler.spawn(closure);
SpawnFrame ==
    /\ pc = "spawn"
    /\ worker' = "queued"
    /\ channel' = << >>
    /\ pc' = "run_one_frame"
    /\ UNCHANGED << timeVars, devVars, alive, application, frames, front, iteration, writing,
                    reading, callbacks, clears, accepted, done >>

\* Where the control thread goes after a Device call of graphics.advance():
\* an error reaches the unwrap() of engine.rs and the thread panics.
AfterCall(ok, next) ==
    /\ pc' = IF ok THEN next ELSE "panic"
    /\ reading' = IF ok THEN Some(Back(front)) ELSE None

GRunOneFrame(ok) ==
    /\ pc = "run_one_frame"
    /\ RunOneFrame(ok)
    /\ AfterCall(ok, "dispatch")
    /\ clears' = Append(clears, Queued(views, 1))
    /\ UNCHANGED << timeVars, alive, worker, channel, application, frames, front, iteration,
                    writing, callbacks, accepted, done >>

PopFrame(field) ==
    frames' = [frames EXCEPT ![Back(front) + 1][field] = Tail(@)]

\* `ok`: whether the backend calls of the creation succeed.
GDispatchPre(setup, ok) ==
    /\ pc = "dispatch"
    /\ frames[Back(front) + 1].pre # << >>
    /\ LET task == Head(frames[Back(front) + 1].pre)
       IN  CASE task.t = "create_view" -> CreateView(H0, setup)
             [] task.t = "create_pipeline" ->
                    CreatePipeline(H0, << "Position" >>, 1, 0, "missing", ok)
             [] OTHER ->
                    CreateVertexBuffer(H0, [hint |-> "Dynamic", len |-> 1], 1, ok)
    /\ AfterCall(last'.res = "Ok", "dispatch")
    /\ PopFrame("pre")
    /\ UNCHANGED << timeVars, alive, worker, channel, application, front, iteration, writing,
                    callbacks, clears, accepted, done >>

GDispatchDrawCall ==
    /\ pc = "dispatch"
    /\ frames[Back(front) + 1].pre = << >>
    /\ frames[Back(front) + 1].drawcalls # << >>
    /\ LET dc == Head(frames[Back(front) + 1].drawcalls)
       IN  /\ Submit(dc.priority, dc.view, H0, << >>, << >>, H0, None, dc.from)
           /\ accepted' = IF last'.res = "Ok" THEN Append(accepted, dc) ELSE accepted
    /\ AfterCall(last'.res = "Ok", "dispatch")
    /\ PopFrame("drawcalls")
    /\ UNCHANGED << timeVars, alive, worker, channel, application, front, iteration, writing,
                    callbacks, clears, done >>

GFlush(failAt) ==
    /\ pc = "dispatch"
    /\ frames[Back(front) + 1].pre = << >>
    /\ frames[Back(front) + 1].drawcalls = << >>
    /\ Flush(UniformNames, {}, failAt)
    /\ AfterCall(last'.res = "Ok", "dispatch_post")
    /\ done' = IF last'.res = "Ok" THEN done \cup {"flush"} ELSE done
    /\ UNCHANGED << timeVars, alive, worker, channel, application, frames, front, iteration,
                    writing, callbacks, clears, accepted >>

GDispatchPost ==
    /\ pc = "dispatch_post"
    /\ frames[Back(front) + 1].post # << >>
    /\ DeleteView(H0)
    /\ AfterCall(last'.res = "Ok", "dispatch_post")
    /\ PopFrame("post")
    /\ UNCHANGED << timeVars, alive, worker, channel, application, front, iteration, writing,
                    callbacks, clears, accepted, done >>

\* The end of graphics.advance(): the back frame is reset.
GClearFrame ==
    /\ pc = "dispatch_post"
    /\ frames[Back(front) + 1].post = << >>
    /\ frames' = [frames EXCEPT ![Back(front) + 1] = EmptyFrame]
    /\ reading' = None
    /\ pc' = "recv"
    /\ UNCHANGED << timeVars, devVars, alive, worker, channel, application, front, iteration,
                    writing, callbacks, clears, accepted, done >>

\* A receive that returns at once, for comparison with the blocking one.
RecvNoWait ==
    /\ pc = "recv"
    /\ pc' = IF channel = << >> \/ Head(channel) THEN "resources" ELSE "exit_err"
    /\ channel' = << >>
    /\ UNCHANGED << timeVars, devVars, alive, worker, application, frames, front, iteration,
                    writing, reading, callbacks, clears, accepted, done >>

\* The result of the worker received and dropped.
RecvDropsError ==
    /\ pc = "recv"
    /\ channel # << >>
    /\ pc' = "resources"
    /\ channel' = << >>
    /\ UNCHANGED << timeVars, devVars, alive, worker, application, frames, front, iteration,
                    writing, reading, callbacks, clears, accepted, done >>

\* tx.recv().unwrap()?  blocks until the worker has sent its result.
Recv ==
    /\ pc = "recv"
    /\ channel # << >>
    /\ pc' = IF Head(channel) THEN "resources" ELSE "exit_err"
    /\ channel' = << >>
    /\ UNCHANGED << timeVars, devVars, alive, worker, application, frames, front, iteration,
                    writing, reading, callbacks, clears, accepted, done >>

\* self.resources.advance()?
ResourcesAdvance(ok) ==
    /\ pc = "resources"
    /\ pc' = IF ok THEN "install" ELSE "exit_err"
    /\ UNCHANGED << timeVars, devVars, alive, worker, channel, application, frames, front,
                    iteration, writing, reading, callbacks, clears, accepted, done >>

\* scheduler.install: the closure takes the write lock and runs on_post_update
\* while the control thread waits for it.
PostUpdateBegin ==
    /\ pc = "install"
    /\ application = "free"
    /\ application' = "post"
    /\ callbacks' = Append(callbacks, "on_post_update")
    /\ pc' = "on_post_update"
    /\ UNCHANGED << timeVars, devVars, alive, worker, channel, frames, front, iteration,
                    writing, reading, clears, accepted, done >>

PostUpdateEnd(ok) ==
    /\ pc = "on_post_update"
    /\ writing = None
    /\ application' = "free"
    /\ pc' = IF ok THEN "poll" ELSE "exit_err"
    /\ UNCHANGED << timeVars, devVars, alive, worker, channel, frames, front, iteration,
                    writing, reading, callbacks, clears, accepted, done >>

\* The closure of the worker starts: execute_frame takes the write lock of the
\* application and calls on_update.
ExecuteFrame ==
    /\ worker = "queued"
    /\ application = "free"
    /\ application' = "worker"
    /\ worker' = "on_update"
    /\ callbacks' = Append(callbacks, "on_update")
    /\ UNCHANGED << timeVars, devVars, alive, pc, channel, frames, front, iteration, writing,
                    reading, clears, accepted, done >>

\* The callback that is running, and what it may record next.
Running ==
    IF worker \in {"on_update", "on_render"} THEN worker
    ELSE IF pc = "on_post_update" THEN pc ELSE "none"

Recordable(priority) ==
    LET f == frames[front + 1]
    IN  CASE Running = "on_update" ->
               IF iteration = 1 /\ Len(f.pre) < Len(SetupTasks)
               THEN {[field |-> "pre", task |-> SetupTasks[Len(f.pre) + 1]]} ELSE {}
          [] Running = "on_render" ->
               IF Len(f.drawcalls) < MaxQueue
               THEN {[field |-> "drawcalls",
                      task |-> [priority |-> priority, view |-> H0, from |-> iteration]]}
               ELSE {}
          [] Running = "on_post_update" ->
               IF Len(f.post) = 0
               THEN {[field |-> "post", task |-> [t |-> "delete_view"]]} ELSE {}
          [] OTHER -> {}

\* A callback records a task into the front frame: the write starts ...
RecordBegin ==
    /\ writing = None
    /\ \E p \in Priorities : Recordable(p) # {}
    /\ writing' = Some(front)
    /\ UNCHANGED << timeVars, devVars, alive, pc, worker, channel, application, frames, front,
                    iteration, reading, callbacks, clears, accepted, done >>

\* ... and ends.
RecordEnd(priority) ==
    /\ writing # None
    /\ \E r \in Recordable(priority) :
          frames' = [frames EXCEPT ![writing.val + 1][r.field] = Append(@, r.task)]
    /\ writing' = None
    /\ UNCHANGED << timeVars, devVars, alive, pc, worker, channel, application, front,
                    iteration, reading, callbacks, clears, accepted, done >>

\* on_update returns; on an error execute_frame returns it and drops the lock.
UpdateEnd(ok) ==
    /\ worker = "on_update"
    /\ writing = None
    /\ worker' = IF ok THEN "on_render" ELSE "send_err"
    /\ application' = IF ok THEN application ELSE "free"
    /\ callbacks' = IF ok THEN Append(callbacks, "on_render") ELSE callbacks
    /\ done' = done \cup (IF ok THEN {"on_update"} ELSE {"on_update", "update_failed"})
    /\ UNCHANGED << timeVars, devVars, alive, pc, channel, frames, front, iteration, writing,
                    reading, clears, accepted >>

RenderEnd(ok) ==
    /\ worker = "on_render"
    /\ writing = None
    /\ worker' = IF ok THEN "send_ok" ELSE "send_err"
    /\ application' = "free"
    /\ done' = done \cup (IF ok THEN {"on_render"} ELSE {"on_render", "render_failed"})
    /\ UNCHANGED << timeVars, devVars, alive, pc, channel, frames, front, iteration, writing,
                    reading, callbacks, clears, accepted >>

\* rx.send(v).unwrap(): when the control thread has panicked, the unwinding
\* of run has dropped the receiver, send returns Err and the unwrap panics
\* on the worker thread; nothing is delivered.
Send ==
    /\ worker \in {"send_ok", "send_err"}
    /\ channel' = IF pc = "panic" THEN channel ELSE << worker = "send_ok" >>
    /\ worker' = IF pc = "panic" THEN "panic" ELSE "idle"
    /\ UNCHANGED << timeVars, devVars, alive, pc, application, frames, front, iteration,
                    writing, reading, callbacks, clears, accepted, done >>

(***************************************************************************)
(* Spec: the resource tables under every create, update, delete and submit *)
(* call, in any order.  The harness keeps the run small: a call that would *)
(* populate a table is made while fewer than MaxKinds tables are in use,   *)
(* the views and pipelines are created with a few setups and a queue holds at most        *)
(* MaxQueue draw calls.                                                    *)
(***************************************************************************)
InUse == Cardinality({k \in 1..7 : Len(tables[k]) > 0})
MayUse(buf) == Len(buf) > 0 \/ InUse < MaxKinds

SomeViewSetups == {[order |-> o, sequence |-> FALSE, framebuffer |-> None] : o \in {0, 5}}
QueueLen(view) ==
    IF DvGet(views, view).some THEN Len(DvGet(views, view).val.drawcalls) ELSE 0

NextBuffers ==
    /\ UNCHANGED << engVars, timeVars >>
    /\ \/ \E h \in Handles, s \in BufferSetups, id \in 0..MaxId, chk \in BOOLEAN :
             MayUse(vertex_buffers) /\ CreateVertexBuffer(h, s, id, chk)
       \/ \E h \in Handles, offset \in 0..MaxData, len \in 0..MaxData, ok \in BOOLEAN :
             UpdateVertexBuffer(h, offset, len, ok)
       \/ \E h \in Handles, ok \in BOOLEAN : DeleteVertexBuffer(h, ok)
       \/ \E h \in Handles, s \in BufferSetups, id \in 0..MaxId, chk \in BOOLEAN :
             MayUse(index_buffers) /\ CreateIndexBuffer(h, s, id, chk)
       \/ \E h \in Handles, offset \in 0..MaxData, len \in 0..MaxData, ok \in BOOLEAN :
             UpdateIndexBuffer(h, offset, len, ok)
       \/ \E h \in Handles, ok \in BOOLEAN : DeleteIndexBuffer(h, ok)

NextTargets ==
    /\ UNCHANGED << engVars, timeVars >>
    /\ \/ \E h \in Handles, id \in 0..MaxId :
             MayUse(render_buffers) /\ CreateRenderBuffer(h, "Color", id)
       \/ \E h \in Handles, ok \in BOOLEAN : DeleteRenderBuffer(h, ok)
       \/ \E h \in Handles, id \in 0..MaxId :
             MayUse(framebuffers) /\ CreateFramebuffer(h, id)
       \/ \E h \in Handles, t \in Handles, fail \in 0..2 :
             UpdateFramebufferWithTexture(h, t, 0, fail)
       \/ \E h \in Handles, b \in Handles, fail \in 0..2 :
             UpdateFramebufferWithRenderbuffer(h, b, 0, fail)
       \/ \E h \in Handles, ok \in BOOLEAN : DeleteFramebuffer(h, ok)
       \/ \E h \in Handles, id \in 0..MaxId :
             MayUse(textures) /\ CreateRenderTexture(h, "Color", id)
       \/ \E h \in Handles, id \in 0..MaxId :
             MayUse(textures) /\ CreateTexture(h, id)
       \/ \E h \in Handles, ok \in BOOLEAN : DeleteTexture(h, ok)

NextViews ==
    /\ UNCHANGED << engVars, timeVars >>
    /\ \/ \E h \in Handles, s \in SomeViewSetups :
             MayUse(views) /\ CreateView(h, s)
       \/ \E h \in Handles : DeleteView(h)
       \/ \E h \in Handles, id \in 0..MaxId, bad \in 0..1, kind \in {"missing", "err"},
             chk \in BOOLEAN :
             MayUse(pipelines) /\ CreatePipeline(h, << "Position" >>, id, bad, kind, chk)
       \/ \E h \in Handles : UpdatePipelineUniform(h, "u", 1)
       \/ \E h \in Handles, ok \in BOOLEAN : DeletePipeline(h, ok)
       \/ \E v \in Handles, p \in {1, 2} :
             /\ QueueLen(v) < MaxQueue
             /\ Submit(p, v, H0, << >>, << >>, H0, None, 0)

Next == NextBuffers \/ NextTargets \/ NextViews

Spec == Init /\ [][Next]_vars

(***************************************************************************)
(* SpecFlush: views of every order on the handles of index 0..MaxView,     *)
(* draw calls on them (at most MaxQueue queued in all), one pipeline and   *)
(* one vertex buffer for them to name, and flush with the backend failing  *)
(* at one of its first MaxFail calls or not at all.                        *)
(***************************************************************************)
ViewHandles == [index : 0..MaxView, version : {1}]

NextFlush ==
    /\ UNCHANGED << engVars, timeVars >>
    /\ \/ \E h \in ViewHandles, o \in Orders :
             CreateView(h, [order |-> o, sequence |-> FALSE, framebuffer |-> None])
       \/ /\ pipelines = << >>
          /\ CreatePipeline(H0, << "Position" >>, 1, 0, "missing", TRUE)
       \/ /\ vertex_buffers = << >>
          /\ CreateVertexBuffer(H0, [hint |-> "Dynamic", len |-> 1], 1, TRUE)
       \/ \E v \in ViewHandles :
             /\ Queued(views, 1) < MaxQueue
             /\ Submit(1, v, H0, << >>, << >>, H0, None, 0)
       \/ \E failAt \in 0..MaxFail :
             /\ failAt <= Fallible(FlushScript(UniformNames, {}))
             /\ Flush(UniformNames, {}, failAt)

SpecFlush == Init /\ [][NextFlush]_vars

(***************************************************************************)
(* SpecDraw: two views, sequence-flagged or not, one pipeline and one      *)
(* vertex buffer, at most MaxDraws draw calls of every priority queued in  *)
(* all, flush (the backend failing at its first call or not at all) and    *)
(* run_one_frame.  A draw call carries in `from` the number of draw calls  *)
(* queued before it, which names it in the backend's log.                  *)
(***************************************************************************)
DrawViews == {[index |-> i, version |-> 1] : i \in 0..1}
PlainLayout == << "Position" >>
PlainBuffer == [hint |-> "Dynamic", len |-> 1]

NextDraw ==
    /\ UNCHANGED << engVars, timeVars >>
    /\ \/ \E sequence \in BOOLEAN :
             /\ Len(views) < 2
             /\ CreateView([index |-> Len(views), version |-> 1],
                           [order |-> 0, sequence |-> sequence, framebuffer |-> None])
       \/ /\ pipelines = << >>
          /\ CreatePipeline(H0, PlainLayout, 1, 0, "missing", TRUE)
       \/ /\ vertex_buffers = << >>
          /\ CreateVertexBuffer(H0, PlainBuffer, 1, TRUE)
       \/ \E v \in DrawViews, p \in Priorities :
             /\ Queued(views, 1) < MaxDraws
             /\ pipelines # << >> /\ vertex_buffers # << >>
             /\ Submit(p, v, H0, << >>, << >>, H0, None, Queued(views, 1))
       \/ \E failAt \in 0..1 : Flush({}, {}, failAt)
       \/ RunOneFrame(TRUE)

SpecDraw == Init /\ [][NextDraw]_vars

(***************************************************************************)
(* SpecPipelines: two sequence-flagged views, two pipelines (the first     *)
(* with persisted uniforms of every name and value, the second with        *)
(* uniforms of value 1 once the first has both names), one vertex buffer,  *)
(* at most MaxDraws draw calls naming either pipeline, and flush under     *)
(* every set of names the programs locate and either iteration order of    *)
(* the persisted uniforms of each pipeline.  The pipeline of index i has   *)
(* the program i + 1; the draw calls of the first view are submitted       *)
(* before those of the second.                                             *)
(***************************************************************************)
NextPipelines ==
    /\ UNCHANGED << engVars, timeVars >>
    /\ \/ /\ Len(views) < 2
          /\ CreateView([index |-> Len(views), version |-> 1],
                        [order |-> 0, sequence |-> TRUE, framebuffer |-> None])
       \/ /\ Len(pipelines) < 2
          /\ CreatePipeline([index |-> Len(pipelines), version |-> 1], PlainLayout,
                            Len(pipelines) + 1, 0, "missing", TRUE)
       \/ /\ vertex_buffers = << >>
          /\ CreateVertexBuffer(H0, PlainBuffer, 1, TRUE)
       \/ \E n \in UniformNames, v \in UniformValues :
             /\ Queued(views, 1) = 0
             /\ n = "v" => v = 1
             /\ UpdatePipelineUniform(H0, n, v)
       \/ \E n \in UniformNames :
             /\ Queued(views, 1) = 0
             /\ Len(pipelines) = 2
             /\ DOMAIN pipelines[1].val.uniforms = UniformNames
             /\ UpdatePipelineUniform([index |-> 1, version |-> 1], n, 1)
       \/ \E v \in DrawViews, p \in DrawViews :
             /\ Queued(views, 1) < MaxDraws
             /\ Len(views) = 2 /\ Len(pipelines) = 2 /\ vertex_buffers # << >>
             /\ v.index = 0 => Queued(views, 2) = 0
             /\ Submit(1, v, p, << >>, << >>, H0, None, Queued(views, 1))
       \/ \E located \in SUBSET UniformNames, rev \in SUBSET {0, 1}, failAt \in 0..1 :
             /\ Queued(views, 1) > 0
             /\ last.op # "flush"
             /\ failAt = 1 => (located = {} /\ rev = {})
             /\ Flush(located, rev, failAt)
       \/ RunOneFrame(TRUE)

SpecPipelines == Init /\ [][NextPipelines]_vars

(***************************************************************************)
(* SpecFail: two sequence-flagged views, one pipeline, one vertex buffer,  *)
(* a texture or none, at most MaxFailDraws draw calls that bind nothing, a *)
(* uniform u, a texture under the name v, or name a vertex buffer that     *)
(* does not exist, and flush under every set of names the program locates  *)
(* with the backend failing at any one of its steps or at none.            *)
(***************************************************************************)
H1 == [index |-> 1, version |-> 1]
DrawKinds == {"plain", "uniform", "texture", "no_buffer"}

NextFail ==
    /\ UNCHANGED << engVars, timeVars >>
    /\ \/ /\ Len(views) < 2
          /\ CreateView([index |-> Len(views), version |-> 1],
                        [order |-> 0, sequence |-> TRUE, framebuffer |-> None])
       \/ /\ pipelines = << >>
          /\ CreatePipeline(H0, PlainLayout, 1, 0, "missing", TRUE)
       \/ /\ vertex_buffers = << >>
          /\ CreateVertexBuffer(H0, PlainBuffer, 1, TRUE)
       \/ /\ textures = << >> /\ Queued(views, 1) = 0
          /\ CreateTexture(H0, 1)
       \/ \E v \in DrawViews, kind \in DrawKinds :
             /\ Queued(views, 1) < MaxFailDraws
             /\ Len(views) = 2 /\ pipelines # << >> /\ vertex_buffers # << >>
             /\ v.index = 0 => Queued(views, 2) = 0
             /\ Submit(1, v, H0,
                       IF kind = "texture" THEN << << "v", H0 >> >> ELSE << >>,
                       IF kind = "uniform" THEN << << "u", 1 >> >> ELSE << >>,
                       IF kind = "no_buffer" THEN H1 ELSE H0, None, Queued(views, 1))
       \/ \E located \in SUBSET UniformNames :
             \E failAt \in 0..Fallible(FlushScript(located, {})) :
                /\ Queued(views, 1) > 0
                /\ last.op # "flush"
                /\ Flush(located, {}, failAt)
       \/ RunOneFrame(TRUE)

SpecFail == Init /\ [][NextFail]_vars

(***************************************************************************)
(* SpecStale: vertex buffers on the handles of two indices and two         *)
(* generations.  As a handle allocator does, the harness gives out the     *)
(* indices in order and the second generation of an index only after an    *)
(* object was created and deleted there; the backend names each buffer by  *)
(* the generation of the handle it was created under.                      *)
(***************************************************************************)
Generations == {1, 2}
StaleHandles == [index : 0..1, version : Generations]

NextStale ==
    /\ UNCHANGED << engVars, timeVars >>
    /\ \/ \E h \in StaleHandles, chk \in BOOLEAN :
             /\ ~DvGet(vertex_buffers, h).some
             /\ h.index <= Len(vertex_buffers)
             /\ h.version = 1 <=> Len(vertex_buffers) = h.index
             /\ CreateVertexBuffer(h, PlainBuffer, h.version, chk)
       \/ \E h \in StaleHandles, len \in 0..MaxData, ok \in BOOLEAN :
             UpdateVertexBuffer(h, 0, len, ok)
       \/ \E h \in StaleHandles, ok \in BOOLEAN : DeleteVertexBuffer(h, ok)

SpecStale == Init /\ [][NextStale]_vars

(***************************************************************************)
(* One sequence view and one pipeline handle: the pipeline is created,     *)
(* deleted and created again with another program, it persists a value of  *)
(* "u", and draw calls bind their own value of "u" or none.                *)
(***************************************************************************)
NextCache ==
    /\ UNCHANGED << engVars, timeVars >>
    /\ \/ /\ views = << >>
          /\ CreateView(H0, [order |-> 0, sequence |-> TRUE, framebuffer |-> None])
       \/ /\ vertex_buffers = << >>
          /\ CreateVertexBuffer(H0, PlainBuffer, 1, TRUE)
       \/ \E pid \in 1..MaxId :
             /\ ~DvGet(pipelines, H0).some
             /\ CreatePipeline(H0, PlainLayout, pid, 0, "missing", TRUE)
       \/ /\ DvGet(pipelines, H0).some
          /\ DeletePipeline(H0, TRUE)
       \/ /\ DvGet(pipelines, H0).some
          /\ DOMAIN DvGet(pipelines, H0).val.uniforms = {}
          /\ UpdatePipelineUniform(H0, "u", 1)
       \/ \E unis \in {<< >>, << << "u", 2 >> >>} :
             /\ views # << >> /\ vertex_buffers # << >>
             /\ Queued(views, 1) < MaxQueue
             /\ Submit(1, H0, H0, << >>, unis, H0, None, Queued(views, 1))
       \/ /\ Queued(views, 1) > 0
          /\ Flush({"u"}, {}, 0)
       \/ RunOneFrame(TRUE)

SpecCache == Init /\ [][NextCache]_vars

(***************************************************************************)
(* SpecTies: two views that are not sequence-flagged, of the orders 5 and  *)
(* 10 in every combination, one pipeline, one vertex buffer, at most       *)
(* MaxDraws draw calls of two priorities, flush after anything (after a    *)
(* flush too) and run_one_frame.                                           *)
(***************************************************************************)
TiePriorities == {1, 2}
TieOrders == {5, 10}

NextTies ==
    /\ UNCHANGED << engVars, timeVars >>
    /\ \/ \E o \in TieOrders :
             /\ Len(views) < 2
             /\ CreateView([index |-> Len(views), version |-> 1],
                           [order |-> o, sequence |-> FALSE, framebuffer |-> None])
       \/ /\ pipelines = << >>
          /\ CreatePipeline(H0, PlainLayout, 1, 0, "missing", TRUE)
       \/ /\ vertex_buffers = << >>
          /\ CreateVertexBuffer(H0, PlainBuffer, 1, TRUE)
       \/ \E v \in DrawViews, p \in TiePriorities :
             /\ Queued(views, 1) < MaxDraws
             /\ Len(views) = 2 /\ pipelines # << >> /\ vertex_buffers # << >>
             /\ Submit(p, v, H0, << >>, << >>, H0, None, Queued(views, 1))
       \/ /\ Len(views) = 2
          /\ Flush({}, {}, 0)
       \/ RunOneFrame(TRUE)

SpecTies == Init /\ [][NextTies]_vars

(***************************************************************************)
(* SpecEngine: the frame loop with its worker, for MaxFrames iterations,   *)
(* under the settings of FrameSettings and a clock that moves by FrameTick *)
(* ms at every read.                                                       *)
(***************************************************************************)
NextControl ==
    \/ \E ok \in BOOLEAN : CurrentDir(ok)
    \/ \E closed \in BOOLEAN : PollEvents(closed)
    \/ FrameClock
    \/ FrameAdvance
    \/ WaitEnd
    \/ AdvanceSample(FrameTick)
    \/ SwapFrames
    \/ SpawnFrame
    \/ Recv
    \/ \E ok \in BOOLEAN : ResourcesAdvance(ok)
    \/ PostUpdateBegin
    \/ \E ok \in BOOLEAN : PostUpdateEnd(ok)

NextGraphics ==
    \/ \E ok \in BOOLEAN : GRunOneFrame(ok)
    \/ \E order \in Orders, ok \in BOOLEAN :
          GDispatchPre([order |-> order, sequence |-> FALSE, framebuffer |-> None], ok)
    \/ GDispatchDrawCall
    \/ \E failAt \in 0..1 : GFlush(failAt)
    \/ GDispatchPost
    \/ GClearFrame

NextWorker ==
    \/ ExecuteFrame
    \/ RecordBegin
    \/ \E p \in {1, 2} : RecordEnd(p)
    \/ \E ok \in BOOLEAN : UpdateEnd(ok)
    \/ \E ok \in BOOLEAN : RenderEnd(ok)
    \/ Send

NextEngine == NextControl \/ NextGraphics \/ NextWorker

\* Engine::new_with for the frame loop: the default settings, a smoothing
\* window, or a max_fps.
FrameSettings == {Unconfigured,
                  [min_fps |-> 0, max_fps |-> 0, time_smooth_step |-> 2],
                  [min_fps |-> 0, max_fps |-> 50, time_smooth_step |-> 0]}
InitEngine == DeviceNew /\ EngineIdle /\ \E s \in FrameSettings : TimingNew(s)

SpecEngine == InitEngine /\ [][NextEngine]_vars

\* The frame loop when every step that is enabled is eventually taken: the
\* threads are scheduled, and the callbacks, the calls of graphics.advance()
\* and resources.advance() return.  The input system delivers the close
\* event by the poll of iteration MaxFrames at the latest.
\* The flush of graphics.advance() is next: GFlush is enabled in exactly
\* these states and every GFlush step leaves them, so that WF_vars of GFlush
\* is []<>~AtFlush.
AtFlush ==
    /\ pc = "dispatch"
    /\ frames[Back(front) + 1].pre = << >>
    /\ frames[Back(front) + 1].drawcalls = << >>

SpecEngineFair ==
    /\ SpecEngine
    /\ WF_vars(NextControl)
    /\ WF_vars(NextWorker)
    /\ WF_vars(\E ok \in BOOLEAN : GRunOneFrame(ok))
    /\ WF_vars(\E order \in Orders, ok \in BOOLEAN :
                  GDispatchPre([order |-> order, sequence |-> FALSE,
                                framebuffer |-> None], ok))
    /\ WF_vars(GDispatchDrawCall)
    /\ WF_vars(GDispatchPost)
    /\ WF_vars(GClearFrame)
    /\ []<>~AtFlush

(***************************************************************************)
(* SpecTiming: MaxAdvances calls of advance under every setting, with the  *)
(* clock advancing by the frame times of TickSet up to MaxTime, and by 0   *)
(* or 10 ms between the two reads of a sample.  Between two frames         *)
(* set_min_fps sets either value, set_max_fps sets 50 and                  *)
(* set_time_smoothing_step sets 2.  The clock does not stop while it can   *)
(* advance, and the thread in the wait loop gets to run.                   *)
(***************************************************************************)
InitTiming == DeviceNew /\ EngineIdle /\ \E s \in Settings : TimingNew(s)

NextTiming ==
    \/ \E d \in TickSet : Tick(d)
    \/ \E fps \in {0, 10} : SetMinFps(fps)
    \/ SetMaxFps(50)
    \/ SetTimeSmoothingStep(2)
    \/ AdvanceBegin
    \/ WaitEnd
    \/ \E gap \in {0, 10} : AdvanceSample(gap)

SpecTiming ==
    /\ InitTiming
    /\ [][NextTiming]_vars
    /\ WF_vars(\E d \in TickSet : Tick(d) /\ apc = "wait")
    /\ WF_vars(WaitEnd)

(***************************************************************************)
(* The vocabulary of the claims.                                           *)
(***************************************************************************)
\* The slot of handle h holds an object.
Occupied(buf, h) == h.index + 1 <= Len(buf) /\ buf[h.index + 1].some

CreateOps == {"create_vertex_buffer", "create_index_buffer", "create_pipeline",
              "create_view", "create_texture", "create_render_texture",
              "create_render_buffer", "create_framebuffer"}
DeleteOps == {"delete_vertex_buffer", "delete_index_buffer", "delete_pipeline",
              "delete_view", "delete_texture", "delete_render_buffer",
              "delete_framebuffer"}
UpdateOps == {"update_vertex_buffer", "update_index_buffer", "update_pipeline_uniform",
              "update_framebuffer_with_texture", "update_framebuffer_with_renderbuffer"}
HandleOps == UpdateOps \cup DeleteOps \cup {"submit"}

\* The table a call's first handle indexes, and the table of its second handle,
\* by their places in `tables`.
TableIndex(op) ==
    CASE op \in {"create_vertex_buffer", "update_vertex_buffer", "delete_vertex_buffer"}
            -> 1
      [] op \in {"create_index_buffer", "update_index_buffer", "delete_index_buffer"}
            -> 2
      [] op \in {"create_pipeline", "update_pipeline_uniform", "delete_pipeline"} -> 3
      [] op \in {"create_view", "delete_view", "submit"} -> 4
      [] op \in {"create_texture", "create_render_texture", "delete_texture"} -> 5
      [] op \in {"create_render_buffer", "delete_render_buffer"} -> 6
      [] OTHER -> 7
Table2Index(op) == IF op = "update_framebuffer_with_texture" THEN 5 ELSE 6
TableOf(op) == tables[TableIndex(op)]
Table2Of(op) == tables[Table2Index(op)]
TwoHandleOps == {"update_framebuffer_with_texture", "update_framebuffer_with_renderbuffer"}

\* The backend call that releases the object a delete_X removes.
BackendDelete(op) ==
    CASE op \in {"delete_vertex_buffer", "delete_index_buffer"} -> "delete_buffer"
      [] op = "delete_pipeline" -> "delete_program"
      [] op = "delete_texture" -> "delete_texture"
      [] op = "delete_render_buffer" -> "delete_render_buffer"
      [] OTHER -> "delete_framebuffer"

\* Every slot but the one of handle h is the same in buf and in after.
OtherSlotsSame(buf, after, h) ==
    /\ Len(after) = Len(buf)
    /\ \A i \in 1..Len(buf) : i # h.index + 1 => after[i] = buf[i]

(***************************************************************************)
(* C4. create_X on an occupied slot fails with duplicated-handle and       *)
(* leaves the stored object as it is; on a free slot it succeeds when the  *)
(* backend does.  Stated for every resource kind, as the claim is: the     *)
(* step of create_view, create_texture, create_render_texture,             *)
(* create_render_buffer and create_pipeline on an occupied slot breaks it. *)
(***************************************************************************)
C4_CreateOnOccupiedFails ==
    [][ last'.op \in CreateOps =>
          IF Occupied(TableOf(last'.op), last'.h)
          THEN /\ last'.res = "DuplicatedHandle"
               /\ tables'[TableIndex(last'.op)] = TableOf(last'.op)
          ELSE /\ last'.res \in {"Ok", "Backend", "FailedLocateAttribute"}
               /\ last'.res = "Ok" => Occupied(tables'[TableIndex(last'.op)], last'.h) ]_vars

(***************************************************************************)
(* C5. A call that takes a handle to an existing resource (every update_X, *)
(* every delete_X, submit) whose handle, or second handle, is not in its   *)
(* table returns InvalidHandle, issues no backend call and changes no      *)
(* table.                                                                  *)
(***************************************************************************)
C5_AbsentHandleIsInvalid ==
    [][ ( /\ last'.op \in HandleOps
          /\ \/ ~Occupied(TableOf(last'.op), last'.h)
             \/ /\ last'.op \in TwoHandleOps
                /\ ~Occupied(Table2Of(last'.op), last'.h2) )
        => /\ last'.res = "InvalidHandle"
           /\ calls' = << >>
           /\ tables' = tables ]_vars

\* update_framebuffer_with_texture was called with a live framebuffer and a
\* texture handle that is not in the table, and returned InvalidHandle.
C5_Witness ==
    /\ last.op = "update_framebuffer_with_texture"
    /\ last.res = "InvalidHandle"
    /\ Occupied(framebuffers, last.h)
    /\ ~Occupied(textures, last.h2)
    /\ calls = << >>

(***************************************************************************)
(* C8.  As claimed: for every resource kind, delete_X on an occupied slot  *)
(* issues exactly one backend delete, for the stored object's id, and      *)
(* frees the slot.  delete_view breaks it: a view has no backend object.   *)
(***************************************************************************)
C8_DeleteIssuesOneBackendDelete ==
    [][ (last'.op \in DeleteOps /\ Occupied(TableOf(last'.op), last'.h))
        => /\ Len(calls') = 1
           /\ calls'[1].call = BackendDelete(last'.op)
           /\ calls'[1].id = TableOf(last'.op)[last'.h.index + 1].val.id
           /\ ~Occupied(tables'[TableIndex(last'.op)], last'.h) ]_vars

(***************************************************************************)
(* C8, amended.  delete_X on an occupied slot frees the slot and leaves    *)
(* every other slot and table as it was; it issues exactly one backend     *)
(* delete, for the stored object's id, for every kind but the view, and no *)
(* backend call for a view.  On a free slot (so also right after a delete  *)
(* of the same handle) it returns InvalidHandle and issues no backend call.*)
(***************************************************************************)
C8_DeleteFreesSlot ==
    [][ last'.op \in DeleteOps =>
          LET buf == TableOf(last'.op)
              h == last'.h
          IN  /\ OtherSlotsSame(buf, tables'[TableIndex(last'.op)], h)
              /\ \A k \in 1..7 : k # TableIndex(last'.op) => tables'[k] = tables[k]
              /\ IF Occupied(buf, h)
                 THEN /\ ~Occupied(tables'[TableIndex(last'.op)], h)
                      /\ last'.res \in {"Ok", "Backend"}
                      /\ IF last'.op = "delete_view" THEN calls' = << >>
                         ELSE calls' = << Call(BackendDelete(last'.op),
                                               buf[h.index + 1].val.id, 0) >>
                 ELSE /\ last'.res = "InvalidHandle"
                      /\ calls' = << >>
                      /\ tables'[TableIndex(last'.op)] = buf
              /\ (last.op = last'.op /\ last.h = h) => last'.res = "InvalidHandle" ]_vars

\* delete_vertex_buffer freed a slot, with one backend delete, while the slot of
\* another handle holds an object.
C8_Witness ==
    /\ last.op = "delete_vertex_buffer"
    /\ last.res = "Ok"
    /\ Len(calls) = 1
    /\ ~Occupied(vertex_buffers, last.h)
    /\ \E g \in Handles : g.index # last.h.index /\ Occupied(vertex_buffers, g)

(***************************************************************************)
(* C6.  As claimed: update_vertex_buffer and update_index_buffer on a live *)
(* handle fail with OutOfBounds whenever offset + len(data) exceeds the    *)
(* capacity, also on an immutable buffer, and with                         *)
(* InvalidUpdateStaticResource on an immutable buffer otherwise.           *)
(***************************************************************************)
BufferUpdateOps == {"update_vertex_buffer", "update_index_buffer"}
\* The buffer object the last update_X call named, when its slot is occupied.
Updated == TableOf(last.op)[last.h.index + 1].val
UpdateOnLive == last.op \in BufferUpdateOps /\ Occupied(TableOf(last.op), last.h)

C6_OutOfBoundsBeforeImmutable ==
    UpdateOnLive =>
        /\ (last.offset + last.len > Updated.setup.len) => last.res = "OutOfBounds"
        /\ (Updated.setup.hint = "Immutable"
              /\ last.offset + last.len <= Updated.setup.len)
           => last.res = "InvalidUpdateStaticResource"

(***************************************************************************)
(* C6, amended.  The immutable hint is checked first: an update on a live  *)
(* immutable buffer fails with InvalidUpdateStaticResource, out of bounds  *)
(* or not; an update on a live buffer that is not immutable fails with     *)
(* OutOfBounds whenever offset + len(data) exceeds the capacity.           *)
(***************************************************************************)
C6_ImmutableBeforeOutOfBounds ==
    UpdateOnLive =>
        /\ Updated.setup.hint = "Immutable" => last.res = "InvalidUpdateStaticResource"
        /\ (Updated.setup.hint # "Immutable"
              /\ last.offset + last.len > Updated.setup.len)
           => last.res = "OutOfBounds"
        /\ (Updated.setup.hint # "Immutable"
              /\ last.offset + last.len <= Updated.setup.len)
           => last.res \in {"Ok", "Backend"}

\* An update that is both out of bounds and on an immutable buffer was made.
C6_Witness ==
    /\ UpdateOnLive
    /\ last.op = "update_index_buffer"
    /\ Updated.setup.hint = "Immutable"
    /\ last.offset + last.len > Updated.setup.len
    /\ last.res = "InvalidUpdateStaticResource"

(***************************************************************************)
(* C7.  A buffer created with the immutable hint rejects every update,     *)
(* whatever the offset and the data, and no backend call is issued for it. *)
(***************************************************************************)
C7_ImmutableRejectsUpdates ==
    (UpdateOnLive /\ Updated.setup.hint = "Immutable")
        => /\ last.res = "InvalidUpdateStaticResource"
           /\ calls = << >>

\* An update with empty data at offset 0 was made on an immutable vertex buffer.
C7_Witness ==
    /\ UpdateOnLive
    /\ last.op = "update_vertex_buffer"
    /\ Updated.setup.hint = "Immutable"
    /\ last.offset = 0 /\ last.len = 0
    /\ last.res # "Ok"

(***************************************************************************)
(* C9.  submit on a view handle whose slot holds no view fails with        *)
(* InvalidHandle and changes no table; submit on a live view succeeds,     *)
(* appends exactly one DrawCall at the end of that view's queue, leaves    *)
(* the view's setup, every other view and every other table as they were,  *)
(* and issues no backend call.                                             *)
(***************************************************************************)
C9_SubmitAppendsToLiveView ==
    [][last'.op = "submit" =>
          /\ calls' = << >>
          /\ IF Occupied(views, last'.h)
             THEN LET before == views[last'.h.index + 1].val
                      after == views'[last'.h.index + 1].val
                  IN  /\ last'.res = "Ok"
                      /\ Len(after.drawcalls) = Len(before.drawcalls) + 1
                      /\ SubSeq(after.drawcalls, 1, Len(before.drawcalls))
                            = before.drawcalls
                      /\ after.drawcalls[Len(after.drawcalls)].view = last'.h
                      /\ after.setup = before.setup
                      /\ OtherSlotsSame(views, views', last'.h)
                      /\ \A k \in 1..7 : k # 4 => tables'[k] = tables[k]
             ELSE /\ last'.res = "InvalidHandle"
                  /\ tables' = tables]_vars

\* A draw call of priority 2 was appended behind one of priority 1, next to
\* another live view.
C9_Witness ==
    /\ last.op = "submit" /\ last.res = "Ok"
    /\ Len(views[last.h.index + 1].val.drawcalls) = 2
    /\ views[last.h.index + 1].val.drawcalls[1].priority = 1
    /\ views[last.h.index + 1].val.drawcalls[2].priority = 2
    /\ Len(views) = 2 /\ views[1].some /\ views[2].some

(***************************************************************************)
(* C10.  flush visits the live views with a non-zero order before the      *)
(* live views of order zero, the former by descending order and the latter *)
(* by ascending index; a flush that fails has visited a prefix of that     *)
(* sequence.  The views a flush visited are read off its clear calls.      *)
(***************************************************************************)
IsClear(c) == c.call = "clear"
Visited == [k \in 1..Len(SelectSeq(calls, IsClear)) |-> SelectSeq(calls, IsClear)[k].arg]
OrderOf(i) == views[i + 1].val.setup.order
\* View i is flushed before view j.
FlushedBefore(i, j) ==
    \/ OrderOf(i) # 0 /\ OrderOf(j) = 0
    \/ OrderOf(i) # 0 /\ OrderOf(j) # 0 /\ OrderOf(i) >= OrderOf(j)
    \/ OrderOf(i) = 0 /\ OrderOf(j) = 0 /\ i < j
LiveViews == {i \in 0..(Len(views) - 1) : views[i + 1].some}
VisitedSet == {Visited[k] : k \in 1..Len(Visited)}

C10_FlushViewOrder ==
    last.op = "flush" =>
        /\ VisitedSet \subseteq LiveViews
        /\ Cardinality(VisitedSet) = Len(Visited)
        /\ \A a, b \in 1..Len(Visited) :
              a < b => FlushedBefore(Visited[a], Visited[b])
        /\ \A i \in LiveViews \ VisitedSet :
              /\ last.res # "Ok"
              /\ \A a \in 1..Len(Visited) : FlushedBefore(Visited[a], i)
        /\ last.res = "Ok" => VisitedSet = LiveViews

\* Views A, B and C of orders 0, 5 and 10 sit at the indices 0, 2 and 1 and a
\* successful flush visited C, B, A.
C10_Witness ==
    /\ last.op = "flush" /\ last.res = "Ok"
    /\ LiveViews = {0, 1, 2}
    /\ OrderOf(0) = 0 /\ OrderOf(2) = 5 /\ OrderOf(1) = 10
    /\ Visited = << 1, 2, 0 >>
    /\ Queued(views, 1) > 0

(***************************************************************************)
(* C1.  In every interleaving of the control thread and the worker, the    *)
(* frame a callback is writing into and the frame graphics.advance() is    *)
(* dispatching and flushing are different: the callbacks write the front   *)
(* frame, graphics.advance() reads the back one, and swap_frames is not    *)
(* reached while either is under way.  The draw-call queues of the Device  *)
(* are filled by the dispatch on the control thread, from the back frame.  *)
(***************************************************************************)
C1_WriteAndFlushOnDifferentFrames ==
    /\ writing.some => writing.val = front
    /\ reading.some => reading.val # front
    /\ (writing.some /\ reading.some) => writing.val # reading.val
    /\ pc = "swap" => (~writing.some /\ ~reading.some /\ worker = "idle")

\* on_render is writing a draw call into one frame while the draw calls of
\* the other are being submitted to the Device.
C1_Witness ==
    /\ writing.some /\ reading.some
    /\ worker = "on_render"
    /\ pc = "dispatch"
    /\ frames[reading.val + 1].drawcalls # << >>
    /\ frames[writing.val + 1].drawcalls # << >>
    /\ accepted # << >>

(***************************************************************************)
(* C2.  resources.advance, on_post_update and the poll, advance and        *)
(* swap_frames of the next iteration are reached only when the flush of    *)
(* graphics.advance and the worker's on_update and on_render have          *)
(* completed; the callbacks of an iteration start in the order on_update,  *)
(* on_render, on_post_update; and on_post_update never runs while          *)
(* on_update or on_render does.                                            *)
(***************************************************************************)
AfterJoin ==
    \/ pc \in {"resources", "install", "on_post_update"}
    \/ pc \in {"poll", "swap"} /\ iteration > 0
CallbackOrder == << "on_update", "on_render", "on_post_update" >>

C2_JoinBeforePostUpdate ==
    /\ AfterJoin =>
          /\ {"flush", "on_update", "on_render"} \subseteq done
          /\ worker = "idle"
          /\ ~reading.some
    /\ Len(callbacks) <= Len(CallbackOrder)
    /\ callbacks = SubSeq(CallbackOrder, 1, Len(callbacks))
    /\ ~(worker \in {"on_update", "on_render"} /\ pc = "on_post_update")
    /\ application = "post" <=> pc = "on_post_update"
    /\ application = "worker" <=> worker \in {"on_update", "on_render"}

\* on_post_update of the second iteration is running, after on_update and
\* on_render of that iteration and after a flush that drew.
C2_Witness ==
    /\ pc = "on_post_update"
    /\ iteration = 2
    /\ callbacks = CallbackOrder
    /\ accepted # << >>

(***************************************************************************)
(* C3.  In an iteration of the loop run_one_frame is called once, before   *)
(* the Device accepts a submit of that iteration; when the submits of an   *)
(* iteration start the queues hold no draw call of an earlier one; and     *)
(* from then to the end of graphics.advance() the queue of every live view *)
(* holds the draw calls accepted for it in this iteration, before flush in *)
(* the order of their submission.  Draw calls carry the iteration that     *)
(* recorded them in `from`.                                                *)
(***************************************************************************)
AcceptedFor(i) ==
    LET Mine(dc) == dc.view.index = i IN SelectSeq(accepted, Mine)
Count(s, x) == Cardinality({k \in 1..Len(s) : s[k] = x})
SameDrawCalls(s, t) ==
    /\ Len(s) = Len(t)
    /\ \A k \in 1..Len(s) : Count(s, s[k]) = Count(t, s[k])
QueueOf(i) ==
    LET dcs == views[i + 1].val.drawcalls
    IN  [k \in 1..Len(dcs) |-> [priority |-> dcs[k].priority, view |-> dcs[k].view,
                                from |-> dcs[k].from]]

C3_QueueClearedOncePerFrame ==
    /\ Len(clears) <= 1
    /\ pc \in {"dispatch", "dispatch_post", "recv", "resources", "install",
               "on_post_update"} => Len(clears) = 1
    /\ accepted # << >> => Len(clears) = 1
    /\ pc = "dispatch" =>
          \A i \in LiveViews :
              /\ QueueOf(i) = AcceptedFor(i)
              /\ \A k \in 1..Len(QueueOf(i)) : QueueOf(i)[k].from = iteration - 1
    /\ pc = "dispatch_post" =>
          \A i \in LiveViews : SameDrawCalls(QueueOf(i), AcceptedFor(i))

\* In the third iteration run_one_frame removed the draw calls of the second
\* and the view's queue holds the two submitted since.
C3_Witness ==
    /\ iteration = 3
    /\ pc = "dispatch"
    /\ Len(clears) = 1 /\ clears[1] > 0
    /\ Len(accepted) = 2
    /\ QueueOf(0) = accepted

(***************************************************************************)
(* The timestep (SpecTiming).                                              *)
(***************************************************************************)
\* A call of advance returns: the step that takes the sample.
AdvanceReturns == apc = "sample" /\ apc' = "idle"
\* The clamped sample the call that returns has taken.
SampleTaken == IF smoothing_step > 0 THEN Head(previous_timesteps') ELSE timestep'
\* The mean of a non-empty sequence of samples.
Mean(s) == Sum(s) \div Len(s)

\* C16: with smoothing over a window w, after a call of advance the timestep is
\* the mean of the last min(w, history length) clamped samples, which are the
\* samples previous_timesteps holds.  The code takes the latest sample alone
\* while the history is not longer than w.
C16_TimestepIsMeanOfHistory ==
    [][(AdvanceReturns /\ smoothing_step > 0)
          => timestep' = Mean(previous_timesteps')]_vars

\* C17 as stated: with a min_fps, after a call of advance the timestep does not
\* exceed 1000 div min_fps ms.
C17_TimestepNeverExceedsCeiling ==
    [][(AdvanceReturns /\ min_fps > 0) => timestep' <= Interval(min_fps)]_vars

\* C17: with a min_fps the sample a call of advance takes is min(raw elapsed,
\* 1000 div min_fps ms) and does not exceed that ceiling; without smoothing the
\* timestep is that sample; with smoothing the timestep does not exceed the
\* ceiling when no sample of the window does.
C17_SampleClamped ==
    [][AdvanceReturns =>
        /\ raw' = now - last_frame_timepoint
        /\ min_fps > 0 => /\ SampleTaken = Min(raw', Interval(min_fps))
                          /\ SampleTaken <= Interval(min_fps)
        /\ min_fps = 0 => SampleTaken = raw'
        /\ smoothing_step = 0 => timestep' = SampleTaken
        /\ (/\ min_fps > 0
            /\ smoothing_step > 0
            /\ \A i \in 1..Len(previous_timesteps') :
                   previous_timesteps'[i] <= Interval(min_fps))
               => timestep' <= Interval(min_fps)]_vars

\* A raw elapsed time of 250 ms under min_fps = 10 has given a timestep of 100 ms.
C17_Witness ==
    /\ apc = "idle"
    /\ advances > 0
    /\ min_fps = 10
    /\ smoothing_step = 0
    /\ raw = 250
    /\ timestep = 100

\* C18: with a max_fps, a call of advance takes its sample only when more than
\* 1000 div max_fps ms have passed since the previous timepoint, and the wait
\* loop is left as long as the clock advances.
C18_WaitsForInterval ==
    /\ [][(AdvanceReturns /\ max_fps > 0) => raw' > Interval(max_fps)]_vars
    /\ [][(apc = "wait" /\ apc' # "wait") =>
             now - last_frame_timepoint > Interval(max_fps)]_vars
    /\ (apc = "wait") ~> (apc = "sample" \/ now + 10 > MaxTime)

\* A call under max_fps = 50 that entered the loop has returned with a sample
\* of more than 20 ms, reached in steps of 10 ms.
C18_Witness ==
    /\ apc = "idle"
    /\ advances > 0
    /\ max_fps = 50
    /\ raw = 30

(***************************************************************************)
(* The end of the loop (SpecEngine).                                       *)
(***************************************************************************)
\* A callback of this iteration has returned an error.
Failed == "update_failed" \in done \/ "render_failed" \in done
\* No task of the worker and no dispatch or flush is under way.
NothingInFlight ==
    /\ worker = "idle"
    /\ channel = << >>
    /\ application = "free"
    /\ writing = None
    /\ reading = None

\* C19: the loop is left on a close event only from the poll at the start of
\* an iteration: alive becomes false and that iteration makes no advance, no
\* swap_frames, no callback and no flush; at that point, and ever after, no
\* task of the worker and no flush is in flight.
C19_CloseEndsLoopBetweenIterations ==
    /\ [][(pc' = "exit_ok" /\ pc # "exit_ok") =>
             /\ pc = "poll"
             /\ alive /\ ~alive'
             /\ NothingInFlight
             /\ UNCHANGED << devVars, worker, channel, application, frames, front,
                             iteration, writing, reading, callbacks, clears,
                             accepted, done >>]_vars
    /\ [](pc = "exit_ok" => ~alive /\ NothingInFlight /\ ~ENABLED NextEngine)

\* The loop has been left on a close event polled after a whole iteration.
C19_Witness ==
    /\ pc = "exit_ok"
    /\ iteration = 1
    /\ callbacks = << "on_update", "on_render", "on_post_update" >>
    /\ "flush" \in done

IsDraw(c) == c.call \in {"draw_arrays", "draw_elements"}
\* The draw calls a log holds, by their names (`from`), in order.
Drawn(cs) == LET d == SelectSeq(cs, IsDraw) IN [k \in 1..Len(d) |-> d[k].arg]
\* The names of the draw calls of a queue, in order.
Names(q) == [k \in 1..Len(q) |-> q[k].from]
\* The priority of the draw call named n in queue q.
PriorityOf(q, n) == q[CHOOSE k \in 1..Len(q) : q[k].from = n].priority
\* The draw calls of log cs that are those of queue q, in order.
DrawnOf(cs, q) ==
    LET InQ(n) == \E k \in 1..Len(q) : q[k].from = n
    IN  SelectSeq(Drawn(cs), InQ)
IsPrefix(a, b) == Len(a) <= Len(b) /\ a = SubSeq(b, 1, Len(a))

\* C11: a flush realizes the draw calls of a view that is not sequence-flagged
\* by descending priority and those of a sequence-flagged view in submission
\* order, each at most once, and each exactly once when the flush returns Ok.
C11_DrawOrderWithinView ==
    [][\A failAt \in 0..1 :
          (last'.op = "flush" /\ Flush({}, {}, failAt)) =>
            \A i \in 1..Len(views) :
              views[i].some =>
                LET vo == views[i].val
                    q == vo.drawcalls
                    d == DrawnOf(calls', q)
                IN  /\ \A a, b \in 1..Len(d) : a # b => d[a] # d[b]
                    /\ last'.res = "Ok" => {d[k] : k \in 1..Len(d)} =
                                           {q[k].from : k \in 1..Len(q)}
                    /\ vo.setup.sequence => IsPrefix(d, Names(q))
                    /\ ~vo.setup.sequence =>
                          \A a, b \in 1..Len(d) :
                             a < b => PriorityOf(q, d[a]) >= PriorityOf(q, d[b])
                    /\ Len(Drawn(calls')) <= Queued(views, 1)]_vars

\* A view that is not sequence-flagged, given priorities 3, 1, 2 in this
\* order, has been flushed: the draw calls ran in the order 3, 2, 1.
C11_Witness ==
    /\ last.op = "flush" /\ last.res = "Ok"
    /\ \E i \in 1..Len(views) :
          /\ views[i].some /\ ~views[i].val.setup.sequence
          /\ Len(views[i].val.drawcalls) = 3
          /\ [k \in 1..3 |-> views[i].val.drawcalls[k].priority] = << 3, 2, 1 >>
          /\ Names(views[i].val.drawcalls) = << 0, 2, 1 >>
    /\ Drawn(calls) = << 0, 2, 1 >>

(***************************************************************************)
(* The binding of pipelines in a flush (SpecPipelines).                    *)
(***************************************************************************)
\* The calls of bind_pipeline that set the program and the render state.
StateCalls == << "bind_program", "set_cull_face", "set_front_face_order",
                "set_depth_test", "set_depth_write", "set_color_blend",
                "set_color_write" >>
IsBinding(c) == c.call = "bind_uniform" \/ \E k \in 1..Len(StateCalls) : c.call = StateCalls[k]
IsBindUniform(c) == c.call = "bind_uniform"
\* The positions of the draw calls in a log.
DrawPos(cs) ==
    LET At(i) == IsDraw(cs[i]) IN SelectSeq([i \in 1..Len(cs) |-> i], At)
\* The calls a log holds before its k-th draw call and after the one before it.
Segment(cs, k) ==
    LET pos == DrawPos(cs)
    IN  SubSeq(cs, IF k = 1 THEN 1 ELSE pos[k - 1] + 1, pos[k] - 1)
\* The program of the k-th draw call of a log.
ProgramOf(cs, k) == cs[DrawPos(cs)[k]].id
\* The pipeline object whose program is id.
PipelineOf(id) == pipelines[CHOOSE i \in 1..Len(pipelines) :
                              pipelines[i].some /\ pipelines[i].val.id = id].val
\* The k-th draw call of the log begins a run: no pipeline, or another one,
\* was bound before it.
BeginsRun(cs, k, active) ==
    IF k = 1 THEN ~active.some \/ DvGet(pipelines, active.val).val.id # ProgramOf(cs, 1)
    ELSE ProgramOf(cs, k) # ProgramOf(cs, k - 1)
\* The names of the calls of a sequence.
CallNames(cs) == [k \in 1..Len(cs) |-> cs[k].call]
\* The state-binding sequence of program id, the persisted uniforms in `names`
\* bound, is what segment seg holds of binding calls.
BoundOnce(seg, id, names) ==
    LET b == SelectSeq(seg, IsBinding)
        u == SelectSeq(seg, IsBindUniform)
        uniforms == PipelineOf(id).uniforms
    IN  /\ Len(b) = Len(StateCalls) + Cardinality(names)
        /\ SubSeq(CallNames(b), 1, Len(StateCalls)) = StateCalls
        /\ b[1].id = id
        /\ \A k \in Len(StateCalls) + 1..Len(b) : b[k].call = "bind_uniform"
        /\ {<< u[k].name, u[k].arg >> : k \in 1..Len(u)} =
               {<< n, uniforms[n] >> : n \in names}

\* C12: in a flush that starts with no active pipeline, as run_one_frame
\* leaves it, and returns Ok, the calls before the first draw call of every
\* maximal run of draw calls of one pipeline hold the state-binding sequence
\* of that pipeline once, with its persisted uniforms, and the calls before
\* the later draw calls of the run hold no binding call; the runs go across
\* the boundary of the views.
C12_BindingOncePerRun ==
    [][\A located \in SUBSET UniformNames, rev \in SUBSET {0, 1} :
          (/\ last'.op = "flush" /\ last'.res = "Ok"
           /\ active_pipeline = None
           /\ Flush(located, rev, 0)) =>
             /\ Drawn(calls') = Names(views[1].val.drawcalls) \o Names(views[2].val.drawcalls)
             /\ \A k \in 1..Len(DrawPos(calls')) :
                   IF BeginsRun(calls', k, None)
                   THEN BoundOnce(Segment(calls', k), ProgramOf(calls', k),
                                  (DOMAIN PipelineOf(ProgramOf(calls', k)).uniforms)
                                      \cap located)
                   ELSE SelectSeq(Segment(calls', k), IsBinding) = << >>]_vars

\* Three draw calls, the second view's first continuing the run of the first
\* view's last: programs 2, 1, 1 with two binding sequences in all, the one of
\* program 1 with a persisted uniform.
C12_Witness ==
    /\ last.op = "flush" /\ last.res = "Ok"
    /\ Len(views) = 2
    /\ Len(views[1].val.drawcalls) = 2 /\ Len(views[2].val.drawcalls) = 1
    /\ [k \in 1..Len(DrawPos(calls)) |-> ProgramOf(calls, k)] = << 2, 1, 1 >>
    /\ Len(SelectSeq(calls, IsBinding)) = 2 * Len(StateCalls) + 1

\* C13 as stated: whenever flush binds a pipeline, every persisted uniform of
\* it is bound.
C13_BindsEveryPersistedUniform ==
    [][\A located \in SUBSET UniformNames, rev \in SUBSET {0, 1} :
          (/\ last'.op = "flush" /\ last'.res = "Ok"
           /\ Flush(located, rev, 0)) =>
             \A k \in 1..Len(DrawPos(calls')) :
                BeginsRun(calls', k, active_pipeline) =>
                   BoundOnce(Segment(calls', k), ProgramOf(calls', k),
                             DOMAIN PipelineOf(ProgramOf(calls', k)).uniforms)]_vars

\* C13: update_pipeline_uniform records the value under the name, replacing
\* an earlier one.  When a draw call's pipeline is not the one bound before
\* it (the active one for the first draw call of a flush), flush issues, before
\* the draw, the pipeline's state-binding sequence and binds, with the value
\* recorded last, every persisted uniform whose name the program locates, and
\* no other; active_pipeline then names the pipeline of the last draw call.
C13_RebindsStateAndLocatedUniforms ==
    /\ [][\A n \in UniformNames, v \in UniformValues :
            (/\ last'.op = "update_pipeline_uniform" /\ last'.res = "Ok"
             /\ UpdatePipelineUniform(H0, n, v)) =>
               /\ pipelines'[1].val.uniforms[n] = v
               /\ \A m \in DOMAIN pipelines[1].val.uniforms :
                     m # n => pipelines'[1].val.uniforms[m] = pipelines[1].val.uniforms[m]]_vars
    /\ [][\A located \in SUBSET UniformNames, rev \in SUBSET {0, 1} :
            (/\ last'.op = "flush" /\ last'.res = "Ok"
             /\ Flush(located, rev, 0)) =>
               /\ \A k \in 1..Len(DrawPos(calls')) :
                     BeginsRun(calls', k, active_pipeline) =>
                        BoundOnce(Segment(calls', k), ProgramOf(calls', k),
                                  (DOMAIN PipelineOf(ProgramOf(calls', k)).uniforms)
                                      \cap located)
               /\ active_pipeline'.some
               /\ DvGet(pipelines, active_pipeline'.val).val.id =
                     ProgramOf(calls', Len(DrawPos(calls')))]_vars

\* The first pipeline, whose persisted uniform u was set to 2, has been bound
\* twice in one flush, around a draw call of the second pipeline, with u = 2
\* bound each time and the unlocated v left out.
C13_Witness ==
    /\ last.op = "flush" /\ last.res = "Ok"
    /\ [k \in 1..Len(DrawPos(calls)) |-> ProgramOf(calls, k)] = << 1, 2, 1 >>
    /\ DOMAIN pipelines[1].val.uniforms = {"u", "v"}
    /\ pipelines[1].val.uniforms["u"] = 2
    /\ LET u == SelectSeq(calls, IsBindUniform)
       IN  Len(u) = 2 /\ \A k \in 1..2 : u[k].name = "u" /\ u[k].arg = 2
    /\ active_pipeline = Some(H0)

(***************************************************************************)
(* The errors of a flush (SpecFail).                                       *)
(***************************************************************************)
\* The draw calls in the order flush realizes them with two sequence-flagged
\* views of order 0: the first view's queue, then the second's.
Realized == views[1].val.drawcalls \o views[2].val.drawcalls
IsClearCall(c) == c.call = "clear"
IsBindBuffer(c) == c.call = "bind_buffer"
\* A step of flush from a state with both views.
FlushStep == last'.op = "flush" /\ Len(views) = 2

\* C14: a flush that meets a backend error returns it at the failing step:
\* with the failAt-th step failing, the backend has seen failAt calls and draws
\* and nothing after them.  A flush draws a prefix of the draw calls in the
\* realized order, all of them when it returns Ok; one that does not return
\* Ok has started at most one draw call beyond those it drew and has not
\* begun the second view unless the first one's draw calls were all drawn.  The log holds binding and draw calls only (none
\* undoes another), and run_one_frame empties the queues, so that the flush of
\* the next frame draws only what was submitted after it.
C14_FlushFailFast ==
    /\ [][FlushStep =>
            LET d == Len(Drawn(calls'))
                failed == last'.res # "Ok"
            IN  /\ IsPrefix(Drawn(calls'), Names(Realized))
                /\ last'.res = "Backend" <=> last'.failAt \in 1..Len(calls')
                /\ last'.res = "Backend" => Len(calls') = last'.failAt
                /\ (failed /\ d = Len(Realized)) => last'.res = "Backend"
                /\ ~failed => d = Len(Realized)
                /\ failed => Len(SelectSeq(calls', IsBindBuffer)) <= d + 1
                /\ Len(SelectSeq(calls', IsClearCall)) = 2 =>
                       d >= Len(views[1].val.drawcalls)
                /\ (failed /\ d < Len(views[1].val.drawcalls)) =>
                       Len(SelectSeq(calls', IsClearCall)) <= 1
                /\ \A k \in 1..Len(calls') :
                       calls'[k].call \notin {"delete_buffer", "delete_program",
                                              "delete_texture", "delete_framebuffer",
                                              "delete_render_buffer"}]_vars
    /\ [][last'.op = "run_one_frame" => Queued(views', 1) = 0]_vars

\* The check of the first of two draw calls failed: one draw of two, no call
\* after it, and the second draw call still queued.
C14_Witness ==
    /\ last.op = "flush" /\ last.res = "Backend"
    /\ Len(views) = 2 /\ Queued(views, 1) = 2
    /\ Len(Drawn(calls)) = 1
    /\ IsDraw(calls[Len(calls)])
    /\ Len(calls) = last.failAt

\* The first name bound by draw call dc that the program does not locate, as
\* << kind, name >>; << >> when it locates them all.  A texture's name is
\* looked up only when the texture exists.
Unresolved(dc, located) ==
    IF Len(dc.uniforms) > 0 /\ dc.uniforms[1][1] \notin located
    THEN << "uniform", dc.uniforms[1][1] >>
    ELSE IF /\ Len(dc.textures) > 0
            /\ DvGet(textures, dc.textures[1][2]).some
            /\ dc.textures[1][1] \notin located
    THEN << "texture", dc.textures[1][1] >>
    ELSE << >>
\* Draw call dc names a texture or a vertex buffer that does not exist.
InvalidReference(dc) ==
    \/ ~DvGet(vertex_buffers, dc.vb).some
    \/ Len(dc.textures) > 0 /\ ~DvGet(textures, dc.textures[1][2]).some

\* C15: when a draw call binds a uniform or texture name the program does not
\* locate, flush does not return Ok and draws neither that draw call nor a
\* later one; unless a backend call fails or an earlier reference is invalid,
\* the error is the failed-to-locate message with that name, and the last
\* backend call is the lookup of that name.
C15_UnresolvedNameAborts ==
    [][FlushStep =>
         \A j \in 1..Len(Realized) :
            LET u == Unresolved(Realized[j], last'.located)
            IN  (/\ u # << >>
                 /\ \A i \in 1..j - 1 : Unresolved(Realized[i], last'.located) = << >>) =>
                   /\ last'.res # "Ok"
                   /\ Len(Drawn(calls')) < j
                   /\ (/\ last'.failAt = 0
                       /\ \A i \in 1..j - 1 : ~InvalidReference(Realized[i])) =>
                         /\ last'.res = "failed to locate " \o u[1] \o " " \o u[2] \o "."
                         /\ Len(Drawn(calls')) = j - 1
                         /\ calls'[Len(calls')] =
                               CallN("get_uniform_location", 1, 0, u[2])]_vars

\* The second draw call binds the texture v, which the program does not
\* locate: one draw, and the error names v.
C15_Witness ==
    /\ last.op = "flush"
    /\ last.res = "failed to locate texture v."
    /\ Len(Drawn(calls)) = 1
    /\ Queued(views, 1) = 2
    /\ calls[Len(calls)] = CallN("get_uniform_location", 1, 0, "v")

(***************************************************************************)
(* Handles and the handle table (SpecStale).                               *)
(***************************************************************************)
\* h is stale: the vertex buffer in its slot was created under a later
\* generation of the index, after the object of h was deleted.
Aliased(h) ==
    /\ Occupied(vertex_buffers, h)
    /\ vertex_buffers[h.index + 1].val.id > h.version

\* C21: an update or a delete of a vertex buffer made with a stale handle,
\* whose slot holds an object created under a later generation of the index,
\* returns invalid-handle, calls the backend for no object and leaves the
\* table as it is.  DataVec looks at the index alone.
C21_StaleHandleIsInvalid ==
    [][(/\ last'.op \in {"update_vertex_buffer", "delete_vertex_buffer"}
        /\ Aliased(last'.h)) =>
          /\ last'.res = "InvalidHandle"
          /\ calls' = << >>
          /\ vertex_buffers' = vertex_buffers]_vars

\* C22: for every table the device reaches, every handle h and every value:
\* after set(h, v) get(h) is v, the other slots are as before and the storage
\* has grown to hold the index of h; after remove(h) get(h) is empty, the
\* other slots and the length are as before; remove(h) returns what get(h)
\* returned, and empty when repeated or out of range; get is empty out of
\* range.  A handle is the slot of its index.
C22_DataVecGetSetRemove ==
    LET buf == vertex_buffers
    IN  \A h \in StaleHandles :
          /\ \A v \in Generations :
                LET after == DvSet(buf, h, [id |-> v, setup |-> PlainBuffer])
                IN  /\ DvGet(after, h) = Some([id |-> v, setup |-> PlainBuffer])
                    /\ Len(after) = IF Len(buf) > h.index THEN Len(buf) ELSE h.index + 1
                    /\ \A g \in StaleHandles :
                          g.index # h.index => DvGet(after, g) = DvGet(buf, g)
                    /\ DvRemoved(after, h) = Some([id |-> v, setup |-> PlainBuffer])
                    /\ DvGet(DvRemove(after, h), h) = None
          /\ DvRemoved(buf, h) = DvGet(buf, h)
          /\ DvGet(DvRemove(buf, h), h) = None
          /\ DvRemoved(DvRemove(buf, h), h) = None
          /\ Len(DvRemove(buf, h)) = Len(buf)
          /\ \A g \in StaleHandles :
                g.index # h.index => DvGet(DvRemove(buf, h), g) = DvGet(buf, g)
          /\ h.index >= Len(buf) => DvGet(buf, h) = None /\ DvRemoved(buf, h) = None
          /\ DvGet(buf, h).some <=> Occupied(buf, h)

\* A table that grew to two slots, the first one removed and set again under
\* the second generation, the second one occupied, and a delete just done.
C22_Witness ==
    /\ Len(vertex_buffers) = 2
    /\ vertex_buffers[1] = Some([id |-> 2, setup |-> PlainBuffer])
    /\ vertex_buffers[2] = None
    /\ last.op = "delete_vertex_buffer" /\ last.res = "Ok" /\ last.h.index = 1

(***************************************************************************)
(* The queues after a flush (SpecDraw).                                    *)
(***************************************************************************)
\* C23: a flush that returns Ok leaves the queue of every view it processed
\* empty, and a flush that follows a flush with no submit and no
\* run_one_frame in between issues no draw.  The code empties the queues in
\* run_one_frame only.
C23_FlushConsumesDrawCalls ==
    [][(last'.op = "flush" /\ last'.res = "Ok") =>
          /\ Queued(views', 1) = 0
          /\ (last.op = "flush" /\ last.res = "Ok") => Drawn(calls') = << >>]_vars

(***************************************************************************)
(* The failing paths of create_pipeline (Spec).                            *)
(***************************************************************************)
IsDeleteProgram(c) == c.call = "delete_program"

\* C24: when create_program has returned a program and the lookup of an
\* attribute of the layout fails, by -1 or by a backend error, create_pipeline
\* returns an error with the lookup as its last backend call, leaves the
\* pipeline table as it was, and issues no delete_program.
C24_FailedLookupStoresNothing ==
    [][\A h \in Handles, pid \in 1..MaxId, kind \in {"missing", "err"} :
          (/\ last'.op = "create_pipeline"
           /\ CreatePipeline(h, << "Position" >>, pid, 1, kind, TRUE)) =>
             /\ last'.res = IF kind = "err" THEN "Backend" ELSE "FailedLocateAttribute"
             /\ pipelines' = pipelines
             /\ calls' = << Call("create_program", pid, 0),
                            CallN("get_attribute_location", pid, 0, "Position") >>
             /\ SelectSeq(calls', IsDeleteProgram) = << >>]_vars

\* A create_pipeline on an occupied slot has failed at the lookup: the slot
\* holds the earlier program, not the one just created.
C24_Witness ==
    /\ last.op = "create_pipeline" /\ last.res = "FailedLocateAttribute"
    /\ Occupied(pipelines, last.h)
    /\ calls[1].call = "create_program"
    /\ pipelines[last.h.index + 1].val.id # calls[1].id

(***************************************************************************)
(* Persisted and per-draw uniforms (SpecCache).                            *)
(***************************************************************************)
\* The draw call of the queues whose tag is `from`.
Submitted(buf, from) ==
    LET q == buf[1].val.drawcalls
    IN  q[CHOOSE k \in 1..Len(q) : q[k].from = from]
\* Whether a draw call binds a value of its own to the uniform `name`.
BindsOwn(dc, name) == \E k \in 1..Len(dc.uniforms) : dc.uniforms[k][1] = name
\* The positions before pos where a log binds the uniform `name`.
BindsBefore(cs, pos, name) ==
    {i \in 1..(pos - 1) : cs[i].call = "bind_uniform" /\ cs[i].name = name}
Max(S) == CHOOSE x \in S : \A y \in S : y <= x

\* C25: in a flush, a draw call whose pipeline persists a value of "u" and
\* that binds no value of its own to "u" is issued with "u" at the persisted
\* value: the last bind_uniform of "u" the flush issued before the draw, if
\* there is one, carries the persisted value.
C25_DrawUsesPersistedUniform ==
    [][(last'.op = "flush" /\ last'.res = "Ok") =>
          \A k \in 1..Len(DrawPos(calls')) :
             LET pos == DrawPos(calls')[k]
                 dc == Submitted(views, calls'[pos].arg)
                 pso == DvGet(pipelines, dc.pipeline).val
                 binds == BindsBefore(calls', pos, "u")
             IN  (/\ "u" \in DOMAIN pso.uniforms
                  /\ ~BindsOwn(dc, "u")
                  /\ binds # {}) =>
                    calls'[Max(binds)].arg = pso.uniforms["u"]]_vars

(***************************************************************************)
(* The cache of the active pipeline (SpecCache).                           *)
(***************************************************************************)
\* C28: the cache of the active pipeline is coherent with the pipeline
\* table: run_one_frame empties it, a handle it holds names an occupied
\* slot, and while it holds a handle the program in the slot of that handle
\* is not replaced, so that bind_pipeline skips the binding only for the
\* object that was bound last.
C28_ActivePipelineCoherent ==
    [][/\ last'.op = "run_one_frame" => ~active_pipeline'.some
       /\ active_pipeline'.some => Occupied(pipelines', active_pipeline'.val)
       /\ (/\ active_pipeline.some /\ active_pipeline' = active_pipeline
           /\ Occupied(pipelines, active_pipeline.val)
           /\ Occupied(pipelines', active_pipeline.val)) =>
             DvGet(pipelines', active_pipeline.val).val.id
                = DvGet(pipelines, active_pipeline.val).val.id]_vars

(***************************************************************************)
(* An error of the control thread's flush (SpecEngine).                    *)
(***************************************************************************)
\* C26: when the flush of graphics.advance() returns an error, the control
\* thread goes on with the rest of the iteration (the tasks after the flush,
\* then the receive of the worker's result) and does not stop or crash.
C26_FlushErrorNotFatal ==
    [][(/\ pc = "dispatch" /\ pc' # "dispatch"
        /\ last'.op = "flush" /\ last'.res # "Ok") =>
          pc' = "dispatch_post"]_vars

(***************************************************************************)
(* The tables after a failed create or delete (Spec).                      *)
(***************************************************************************)
CreateCalls == {"create_vertex_buffer", "create_index_buffer", "create_texture",
                "create_render_buffer", "create_framebuffer", "create_pipeline"}
DeleteCalls == {"delete_vertex_buffer", "delete_index_buffer", "delete_texture",
                "delete_render_buffer", "delete_framebuffer", "delete_pipeline"}

\* C27: a create call that returns an error stores nothing, and a delete
\* call that returns a backend error removes nothing: the seven tables are
\* after the call what they were before it.
C27_FailedCallLeavesTables ==
    [][(/\ last' # last
        /\ \/ last'.op \in CreateCalls /\ last'.res # "Ok"
           \/ last'.op \in DeleteCalls /\ last'.res = "Backend") =>
          tables' = tables]_vars

(***************************************************************************)
(* Ties of priority and of order in a flush (SpecTies).                    *)
(***************************************************************************)
\* The queued draw call named `from`, and the views a log clears, in order.
QueuedAs(buf, from) ==
    LET at == CHOOSE ik \in {<< i, k >> : i \in 1..Len(buf), k \in 1..MaxDraws} :
                 /\ ik[2] <= Len(buf[ik[1]].val.drawcalls)
                 /\ buf[ik[1]].val.drawcalls[ik[2]].from = from
    IN  buf[at[1]].val.drawcalls[at[2]]
ClearedViews(cs) ==
    LET c == SelectSeq(cs, IsClearCall) IN [k \in 1..Len(c) |-> c[k].arg]

\* C29: a flush breaks ties by position: two draw calls of one view and of
\* equal priority are realized in the order of their submission, two views
\* of equal order are processed in the order of their table indices, and a
\* flush that follows a flush realizes the same views and draw calls in the
\* same order.
C29_TiesKeepOrder ==
    [][(last'.op = "flush" /\ last'.res = "Ok" /\ Len(views) = 2) =>
          LET d == Drawn(calls')
              v == ClearedViews(calls')
          IN  /\ \A a, b \in 1..Len(d) :
                    (/\ a < b
                     /\ QueuedAs(views, d[a]).view = QueuedAs(views, d[b]).view
                     /\ QueuedAs(views, d[a]).priority = QueuedAs(views, d[b]).priority)
                       => d[a] < d[b]
              /\ \A a, b \in 1..Len(v) :
                    (a < b /\ views[v[a] + 1].val.setup.order
                               = views[v[b] + 1].val.setup.order) => v[a] < v[b]
              /\ (last.op = "flush" /\ last.res = "Ok") =>
                    (d = Drawn(calls) /\ v = ClearedViews(calls))]_vars

\* Two views of order 5 were flushed in the order of their indices, and the
\* second one, given the priorities 1, 2, 1 in this order, realized the draw
\* call of priority 2, then the first and the last submitted.
C29_Witness ==
    /\ last.op = "flush" /\ last.res = "Ok"
    /\ Len(views) = 2
    /\ views[1].val.setup.order = 5 /\ views[2].val.setup.order = 5
    /\ ClearedViews(calls) = << 0, 1 >>
    /\ Len(views[2].val.drawcalls) = 3
    /\ [k \in 1..3 |-> views[2].val.drawcalls[k].priority] = << 2, 1, 1 >>
    /\ Drawn(calls) = << 1, 0, 2 >>

(***************************************************************************)
(* Termination of Engine::run (SpecEngineFair).                            *)
(***************************************************************************)
Returned == pc \in {"exit_ok", "exit_err"}

\* C30: Engine::run eventually returns, and a control thread that waits at
\* the receive eventually has the worker's result.
C30_RunReturns ==
    /\ <>Returned
    /\ (pc = "recv") ~> (pc # "recv")

====
